---- MODULE Spec2Model ----
(***************************************************************************)
(* Model of the candidate-job matching service of the job portal           *)
(* (app/services/matching_service.py) as a state machine.                  *)
(*                                                                         *)
(* Texts are sequences of one-character strings, so that cleaning,         *)
(* tokenising and substring tests are computed and not assumed.  Scores    *)
(* are fixed-point integers: a float score s is represented by the integer *)
(* s * Scale.                                                              *)
(***************************************************************************)
EXTENDS Integers, Sequences, FiniteSets, TLC

VARIABLES
    min_similarity_score,   \* MatchingService.min_similarity_score (fixed-point)
    max_candidates,         \* MatchingService.max_candidates
    fpOver,                 \* float rounding of the platform: TRUE when the
                            \* cosine of two parallel vectors comes out as
                            \* 1.0000000000000002 instead of 1.0
    vectorizer,             \* MatchingService.vectorizer (fitted state)
    call,                   \* the request in flight or the last one answered
    memo,                   \* an earlier answered request, kept for comparison
    JOB_DATASET,            \* counseling_service.JOB_DATASET, the job market
                            \* data read from job_data.json at import
    job_data_json,          \* the file services/job_data.json on disk
    server,                 \* the server process: "starting" until the
                            \* service modules are imported, then "running",
                            \* or "crashed" when an import raised
    applications_db,        \* routers/applications.py applications_db
    user_applications,      \* routers/applications.py user_applications
    job_applications,       \* routers/applications.py job_applications
    issued,                 \* how many application ids uuid4 has given out
    service_applications_db,\* services/application_service.py applications_db
    application_id_counter, \* services/application_service.py counter
    service_jobs_db,        \* services/job_service.py jobs_db
    job_id_counter,         \* services/job_service.py job_id_counter
    users_db,               \* routers/auth.py users_db
    users_by_email,         \* routers/auth.py users_by_email
    users_db_json,          \* the file users_db.json on disk
    users_by_email_json,    \* the file users_by_email.json on disk
    users_store,            \* services/auth_service.py users_store
    email_to_user_id,       \* services/auth_service.py email_to_user_id
    registered              \* how many user ids uuid4 has given out

vars == <<min_similarity_score, max_candidates, fpOver, vectorizer, call, memo,
          JOB_DATASET, job_data_json, server, applications_db, user_applications,
          job_applications, issued, service_applications_db, application_id_counter,
          service_jobs_db, job_id_counter,
          users_db, users_by_email, users_db_json, users_by_email_json,
          users_store, email_to_user_id, registered>>

(* the application stores, and the state outside the matching service,
   which its calls leave alone *)
service == <<service_applications_db, application_id_counter, service_jobs_db, job_id_counter>>
stores == <<applications_db, user_applications, job_applications, issued, service>>
accounts == <<users_db, users_by_email, users_db_json, users_by_email_json, users_store, email_to_user_id, registered>>
elsewhere == <<JOB_DATASET, job_data_json, server, stores, accounts>>

-----------------------------------------------------------------------------
(* Bounds of the model *)

MaxCands == 3       \* longest candidate list passed to rank
MaxJobs == 2        \* longest job list passed to the recommendation call

(* Fixed-point resolution of a float score: 1.0 is Scale. *)
Scale == 100

(* TfidfVectorizer(max_features=1000) *)
max_features == 1000

(* recommendations[:10] *)
max_recommendations == 10

-----------------------------------------------------------------------------
(* Generic helpers on sequences *)

Max2(a, b) == IF a >= b THEN a ELSE b

(* the member of a one-element set; The({e(x) : x \in {v}}) computes v once
   and then e of it *)
The(S) == CHOOSE x \in S : TRUE

RECURSIVE SumSeq(_)
SumSeq(s) == IF s = <<>> THEN 0 ELSE Head(s) + SumSeq(Tail(s))

RECURSIVE ConcatAll(_)
ConcatAll(ss) == IF ss = <<>> THEN <<>> ELSE Head(ss) \o ConcatAll(Tail(ss))

(* Python's sep.join(items) *)
RECURSIVE Join(_, _)
Join(sep, items) ==
    IF items = <<>> THEN <<>>
    ELSE IF Len(items) = 1 THEN Head(items)
    ELSE Head(items) \o sep \o Join(sep, Tail(items))

(* Python's seq[:n] for n >= 0 *)
Take(s, n) == IF Len(s) <= n THEN s ELSE SubSeq(s, 1, n)

(* Python's dict.get(key, default) on a record with optional fields *)
Get(d, key, default) == IF key \in DOMAIN d THEN d[key] ELSE default

(* Python's `a in b` on strings: a is a contiguous part of b *)
Contains(b, a) ==
    \E i \in 1..(Len(b) - Len(a) + 1) : SubSeq(b, i, i + Len(a) - 1) = a

(* integer square root rounded up, by bisection on lo < r <= hi *)
RECURSIVE CeilSqrtIn(_, _, _)
CeilSqrtIn(n, lo, hi) ==
    IF hi - lo <= 1 THEN hi
    ELSE LET mid == (lo + hi) \div 2
         IN  IF mid * mid >= n THEN CeilSqrtIn(n, lo, mid)
             ELSE CeilSqrtIn(n, mid, hi)

CeilSqrt(n) == IF n = 0 THEN 0 ELSE CeilSqrtIn(n, 0, 46340)

-----------------------------------------------------------------------------
(* Characters *)

LowerLetters ==
    {"a","b","c","d","e","f","g","h","i","j","k","l","m",
     "n","o","p","q","r","s","t","u","v","w","x","y","z"}

UpperLetters ==
    {"A","B","C","D","E","F","G","H","I","J","K","L","M",
     "N","O","P","Q","R","S","T","U","V","W","X","Y","Z"}

Digits == {"0","1","2","3","4","5","6","7","8","9"}

Whitespace == {" ", "\t", "\n", "\r"}

LowerOf ==
    [c \in UpperLetters |->
        CASE c = "A" -> "a" [] c = "B" -> "b" [] c = "C" -> "c" [] c = "D" -> "d"
          [] c = "E" -> "e" [] c = "F" -> "f" [] c = "G" -> "g" [] c = "H" -> "h"
          [] c = "I" -> "i" [] c = "J" -> "j" [] c = "K" -> "k" [] c = "L" -> "l"
          [] c = "M" -> "m" [] c = "N" -> "n" [] c = "O" -> "o" [] c = "P" -> "p"
          [] c = "Q" -> "q" [] c = "R" -> "r" [] c = "S" -> "s" [] c = "T" -> "t"
          [] c = "U" -> "u" [] c = "V" -> "v" [] c = "W" -> "w" [] c = "X" -> "x"
          [] c = "Y" -> "y" [] c = "Z" -> "z"]

(* str.lower() *)
Lower(text) ==
    [i \in 1..Len(text) |->
        IF text[i] \in UpperLetters THEN LowerOf[text[i]] ELSE text[i]]

(* str.strip() *)
RECURSIVE LStrip(_)
LStrip(text) ==
    IF text # <<>> /\ Head(text) \in Whitespace THEN LStrip(Tail(text)) ELSE text

RECURSIVE RStrip(_)
RStrip(text) ==
    IF text # <<>> /\ text[Len(text)] \in Whitespace
    THEN RStrip(SubSeq(text, 1, Len(text) - 1))
    ELSE text

Strip(text) == RStrip(LStrip(text))

(* re.sub(r'[^a-zA-Z0-9\s]', ' ', text) *)
ReplaceSpecial(text) ==
    [i \in 1..Len(text) |->
        IF text[i] \in LowerLetters \cup UpperLetters \cup Digits \cup Whitespace
        THEN text[i] ELSE " "]

(* re.sub(r'\s+', ' ', text) *)
RECURSIVE CollapseWhitespace(_)
CollapseWhitespace(text) ==
    IF text = <<>> THEN <<>>
    ELSE IF Head(text) \in Whitespace
         THEN <<" ">> \o CollapseWhitespace(LStrip(text))
         ELSE <<Head(text)>> \o CollapseWhitespace(Tail(text))

(* _clean_text that keeps the special characters *)
_clean_text_keeping_special(text) == Strip(CollapseWhitespace(Lower(text)))

(* MatchingService._clean_text *)
_clean_text(text) == Strip(CollapseWhitespace(ReplaceSpecial(Lower(text))))

-----------------------------------------------------------------------------
(* TfidfVectorizer(max_features=1000, stop_words='english',               *)
(*                 ngram_range=(1, 2), lowercase=True)                     *)

(* maximal runs of word characters of text, cur being the run in progress *)
RECURSIVE WordRuns(_, _)
WordRuns(text, cur) ==
    IF text = <<>> THEN (IF cur = <<>> THEN <<>> ELSE <<cur>>)
    ELSE IF Head(text) \in LowerLetters \cup UpperLetters \cup Digits \cup {"_"}
         THEN WordRuns(Tail(text), Append(cur, Head(text)))
         ELSE (IF cur = <<>> THEN <<>> ELSE <<cur>>) \o WordRuns(Tail(text), <<>>)

(* token_pattern r"(?u)\b\w\w+\b": words of two or more characters *)
Tokenize(text) == SelectSeq(WordRuns(text, <<>>), LAMBDA w : Len(w) >= 2)

(* the words of scikit-learn's English stop word list that the texts of
   this model can contain *)
StopWords ==
    { <<"o","f">>, <<"i","s">>, <<"t","h","e">>, <<"a","n","d">>,
      <<"a","n">>, <<"t","o">>, <<"i","n">>, <<"g","o">> }

(* the analyzer: lowercase, tokenise, drop stop words, then the unigrams
   followed by the bigrams of what is left *)
Terms(doc) ==
    LET toks == SelectSeq(Tokenize(Lower(doc)), LAMBDA w : w \notin StopWords)
    IN  IF Len(toks) < 2 THEN toks
        ELSE toks \o [i \in 1..(Len(toks) - 1) |-> toks[i] \o <<" ">> \o toks[i + 1]]

Count(terms, t) == Cardinality({i \in 1..Len(terms) : terms[i] = t})

RECURSIVE SumOver(_, _)
SumOver(S, f) ==
    IF S = {} THEN 0
    ELSE LET x == CHOOSE y \in S : TRUE IN f[x] + SumOver(S \ {x}, f)

(* smooth idf ln((1 + n) / (1 + df)) + 1, in tenths, for n documents *)
IdfTable ==
    << <<10>>,
       <<14, 10>>,
       <<17, 13, 10>>,
       <<19, 15, 12, 10>>,
       <<21, 17, 14, 12, 10>>,
       <<23, 18, 16, 13, 12, 10>>,
       <<24, 20, 17, 15, 13, 11, 10>>,
       <<25, 21, 18, 16, 14, 13, 11, 10>> >>

Idf(n, df) == IdfTable[n][df]

(* the terms of highest total frequency, max_features of them at most *)
LimitFeatures(all, terms) ==
    IF Cardinality(all) <= max_features THEN all
    ELSE LET total == [t \in all |->
                         SumSeq([i \in 1..Len(terms) |-> Count(terms[i], t)])]
         IN  CHOOSE S \in SUBSET all :
                /\ Cardinality(S) = max_features
                /\ \A t \in S : \A u \in all \ S : total[t] >= total[u]

(* the vectorizer before any fit *)
Unfitted == [vocabulary_ |-> {}, idf_ |-> <<>>]

(* FitTerms that keeps a fitted vectorizer when the documents bring no term
   it does not know *)
FitTermsStale(vec, terms) ==
    LET n == Len(terms)
        all == UNION {{terms[i][k] : k \in 1..Len(terms[i])} : i \in 1..n}
    IN  IF all = {} THEN [raised |-> TRUE, vectorizer |-> vec]
        ELSE IF vec.vocabulary_ # {} /\ all \subseteq vec.vocabulary_
             THEN [raised |-> FALSE, vectorizer |-> vec]
        ELSE [raised |-> FALSE,
              vectorizer |->
                 [vocabulary_ |-> all,
                  idf_ |-> [t \in all |->
                              Idf(n, Cardinality({i \in 1..n :
                                       \E k \in 1..Len(terms[i]) : terms[i][k] = t}))]]]

(* TfidfVectorizer.fit on documents given by their terms: whether it
   raises, and the vectorizer after it.  An empty vocabulary raises
   ValueError and leaves the state of vec as it was. *)
FitTerms(vec, terms) ==
    LET n == Len(terms)
        all == UNION {{terms[i][k] : k \in 1..Len(terms[i])} : i \in 1..n}
        vocab == LimitFeatures(all, terms)
    IN  IF all = {} THEN [raised |-> TRUE, vectorizer |-> vec]
        ELSE [raised |-> FALSE,
              vectorizer |->
                 [vocabulary_ |-> vocab,
                  idf_ |-> [t \in vocab |->
                              Idf(n, Cardinality({i \in 1..n :
                                       \E k \in 1..Len(terms[i]) : terms[i][k] = t}))]]]

Fit(vec, docs) ==
    The({FitTerms(vec, terms) : terms \in {[i \in 1..Len(docs) |-> Terms(docs[i])]}})

(* TfidfVectorizer.transform: one row of tf * idf weights *)
Transform(vec, doc) ==
    The({[t \in vec.vocabulary_ |-> Count(terms, t) * vec.idf_[t]] :
            terms \in {Terms(doc)}})

(* CosineOf without the case of the zero row: a zero row counts as
   parallel to every row *)
CosineOfNoZeroRow(dot, na2, nb2, nonzero, over) ==
    IF dot * dot = na2 * nb2
    THEN (IF over /\ nonzero >= 2 THEN Scale + 1 ELSE Scale)
    ELSE (Scale * dot) \div CeilSqrt(na2 * nb2)

(* sklearn cosine_similarity from the dot product, the squared norms and
   the number of non-zero weights of the first row, as a fixed-point score.
   A zero row gives 0.0.  The rows are normalised in floating point: two
   parallel rows of two or more weights give 1.0 or the next float above
   it, 1.0000000000000002, depending on the weights (over); every other
   pair gives the quotient, rounded down. *)
CosineOf(dot, na2, nb2, nonzero, over) ==
    IF na2 = 0 \/ nb2 = 0 THEN 0
    ELSE IF dot * dot = na2 * nb2
         THEN (IF over /\ nonzero >= 2 THEN Scale + 1 ELSE Scale)
    ELSE (Scale * dot) \div CeilSqrt(na2 * nb2)

cosine_similarity(a, b, over) ==
    LET V == DOMAIN a
    IN  The({CosineOf(p[1], p[2], p[3], Cardinality({t \in V : a[t] # 0}), over) :
                p \in {<<SumOver(V, [t \in V |-> a[t] * b[t]]),
                         SumOver(V, [t \in V |-> a[t] * a[t]]),
                         SumOver(V, [t \in V |-> b[t] * b[t]])>>}})

-----------------------------------------------------------------------------
(* MatchingService: text preparation and skill analysis *)

(* MatchingService._prepare_job_text *)
_prepare_job_text(description, requirements) ==
    _clean_text(description \o <<" ">> \o Join(<<" ">>, requirements))

(* MatchingService._prepare_candidate_text; " ".join(skills) * 2 repeats
   the joined skills with nothing between the two copies *)
_prepare_candidate_text(resume_text, skills, experience) ==
    LET skills_text == Join(<<" ">>, skills) \o Join(<<" ">>, skills)
        t1 == IF skills # <<>> THEN resume_text \o <<" ">> \o skills_text
              ELSE resume_text
        t2 == IF experience # <<>> THEN t1 \o <<" ">> \o Join(<<" ">>, experience)
              ELSE t1
    IN  _clean_text(t2)

(* the test of MatchingService._analyze_skill_match for one requirement:
   an exact match, or one string being part of the other *)
(* a skill match that asks every skill of the candidate to match the
   requirement *)
SkillMatchesEvery(requirement, candidate_skills) ==
    LET requirement_lower == Strip(Lower(requirement))
    IN  /\ candidate_skills # <<>>
        /\ \A k \in 1..Len(candidate_skills) :
               LET candidate_skill == Strip(Lower(candidate_skills[k]))
               IN  \/ requirement_lower = candidate_skill
                   \/ Contains(candidate_skill, requirement_lower)
                   \/ Contains(requirement_lower, candidate_skill)

SkillMatches(requirement, candidate_skills) ==
    LET requirement_lower == Strip(Lower(requirement))
    IN  \E k \in 1..Len(candidate_skills) :
           LET candidate_skill == Strip(Lower(candidate_skills[k]))
           IN  \/ requirement_lower = candidate_skill
               \/ Contains(candidate_skill, requirement_lower)
               \/ Contains(requirement_lower, candidate_skill)

(* MatchingService._analyze_skill_match: (matching_skills, missing_skills) *)
_analyze_skill_match(candidate_skills, job_requirements) ==
    [matching_skills |->
        SelectSeq(job_requirements, LAMBDA r : SkillMatches(r, candidate_skills)),
     missing_skills |->
        SelectSeq(job_requirements, LAMBDA r : ~SkillMatches(r, candidate_skills))]

-----------------------------------------------------------------------------
(* schemas.CandidateMatch *)

(* pydantic EmailStr: one "@", a local part, and a domain with a dot that
   neither starts nor ends it *)
ValidEmail(e) ==
    /\ Cardinality({i \in 1..Len(e) : e[i] = "@"}) = 1
    /\ LET at == CHOOSE i \in 1..Len(e) : e[i] = "@"
       IN  /\ at > 1
           /\ \E d \in (at + 2)..(Len(e) - 1) : e[d] = "."
           /\ \A i \in 1..Len(e) : e[i] \notin Whitespace

(* Python's None *)
None == <<"None">>

(* the fields CandidateMatch is built from; cand is the position of the
   candidate in the list given to the call *)
MatchFields(cand, candidate, score, matching_skills, missing_skills) ==
    [cand |-> cand,
     user_id |-> Get(candidate, "user_id", <<>>),
     user_name |-> Get(candidate, "user_name", <<"U","n","k","n","o","w","n">>),
     user_email |-> Get(candidate, "user_email", <<>>),
     resume_id |-> Get(candidate, "resume_id", <<>>),
     match_score |-> score,
     matching_skills |-> matching_skills,
     missing_skills |-> missing_skills,
     experience_level |-> Get(candidate, "experience_level", None)]

(* CandidateMatchValid without the bounds of match_score *)
CandidateMatchValidNoBound(m) == ValidEmail(m.user_email)

(* the validation CandidateMatch(...) runs: user_email: EmailStr and
   match_score: float = Field(..., ge=0, le=1) *)
CandidateMatchValid(m) ==
    /\ ValidEmail(m.user_email)
    /\ m.match_score >= 0
    /\ m.match_score <= Scale

-----------------------------------------------------------------------------
(* MatchingService: scoring and ranking *)

(* the first position of ms at which CandidateMatch(...) raises, 0 if none *)
FirstInvalid(ms) ==
    The({IF bad = {} THEN 0 ELSE CHOOSE i \in bad : \A j \in bad : i <= j :
         bad \in {{i \in 1..Len(ms) : ~CandidateMatchValid(ms[i])}}})

(* ScoredMatches with a score that blends the share of matched
   requirements into the similarity *)
ScoredMatchesBlended(fitted, job_text, candidate_texts, candidate_info, job_requirements, over) ==
    The({[i \in 1..Len(candidate_info) |->
            LET skills == _analyze_skill_match(
                              Get(candidate_info[i], "skills", <<>>),
                              job_requirements)
                text == cosine_similarity(job_vector,
                            Transform(fitted, candidate_texts[i]), over)
                share == IF job_requirements = <<>> THEN 0
                         ELSE (Len(skills.matching_skills) * Scale)
                                 \div Len(job_requirements)
            IN  MatchFields(i, candidate_info[i], (text + share) \div 2,
                    skills.matching_skills, skills.missing_skills)] :
         job_vector \in {Transform(fitted, job_text)}})

(* the matches the try block of _calculate_similarity_scores builds with
   the fitted vectorizer, one per candidate *)
ScoredMatches(fitted, job_text, candidate_texts, candidate_info, job_requirements, over) ==
    The({[i \in 1..Len(candidate_info) |->
            LET skills == _analyze_skill_match(
                              Get(candidate_info[i], "skills", <<>>),
                              job_requirements)
            IN  MatchFields(i, candidate_info[i],
                    cosine_similarity(job_vector,
                        Transform(fitted, candidate_texts[i]), over),
                    skills.matching_skills, skills.missing_skills)] :
         job_vector \in {Transform(fitted, job_text)}})

(* the matches the except block of _calculate_similarity_scores builds *)
FallbackMatches(candidate_info, job_requirements) ==
    [i \in 1..Len(candidate_info) |->
        MatchFields(i, candidate_info[i], 0, <<>>, job_requirements)]

(* the outcome of _calculate_similarity_scores given the outcome fit of the
   fit, the matches of the try block and those of the except block: the
   vectorizer after the call, whether the except block ran (failed), whether
   the call raised, and the matches returned.  The except block appends one
   zero-score match per candidate to whatever the loop of the try block had
   appended before it failed, and raises when one of its own matches is
   invalid. *)
SimilarityOutcome(fit, normal, fallback) ==
    The({IF ~fit.raised /\ bad = 0
         THEN [vectorizer |-> fit.vectorizer, failed |-> FALSE, raised |-> FALSE,
               matches |-> normal]
         ELSE The({[vectorizer |-> fit.vectorizer,
                    failed |-> TRUE,
                    raised |-> again # 0,
                    matches |-> IF again # 0 THEN <<>>
                                ELSE IF fit.raised THEN fallback
                                ELSE SubSeq(normal, 1, bad - 1) \o fallback] :
                   again \in {FirstInvalid(fallback)}}) :
         bad \in {IF fit.raised THEN 0 ELSE FirstInvalid(normal)}})

(* MatchingService._calculate_similarity_scores: the vectorizer after the
   call, whether the call raised, and the matches it returned *)
_calculate_similarity_scores(job_text, candidate_texts, candidate_info, job_requirements, vec, over) ==
    The({SimilarityOutcome(fit,
            IF fit.raised THEN <<>>
            ELSE ScoredMatches(fit.vectorizer, job_text, candidate_texts,
                               candidate_info, job_requirements, over),
            FallbackMatches(candidate_info, job_requirements)) :
         fit \in {Fit(vec, <<job_text>> \o candidate_texts)}})

(* list.sort(key=lambda x: x.match_score, reverse=True): a stable sort,
   elements of equal score keep their order *)
RECURSIVE InsertDesc(_, _)
InsertDesc(sorted, m) ==
    IF sorted = <<>> THEN <<m>>
    ELSE IF Head(sorted).match_score >= m.match_score
         THEN <<Head(sorted)>> \o InsertDesc(Tail(sorted), m)
         ELSE <<m>> \o sorted

(* SortDesc without reverse=True: ascending order *)
RECURSIVE InsertAsc(_, _)
InsertAsc(sorted, m) ==
    IF sorted = <<>> THEN <<m>>
    ELSE IF Head(sorted).match_score <= m.match_score
         THEN <<Head(sorted)>> \o InsertAsc(Tail(sorted), m)
         ELSE <<m>> \o sorted

RECURSIVE SortAsc(_)
SortAsc(ms) ==
    IF ms = <<>> THEN <<>>
    ELSE InsertAsc(SortAsc(SubSeq(ms, 1, Len(ms) - 1)), ms[Len(ms)])

RECURSIVE SortDesc(_)
SortDesc(ms) ==
    IF ms = <<>> THEN <<>>
    ELSE InsertDesc(SortDesc(SubSeq(ms, 1, Len(ms) - 1)), ms[Len(ms)])

(* the response of the early return and of the except block *)
EmptyResponse ==
    [job_id |-> <<>>, job_title |-> <<>>, total_candidates |-> 0,
     candidates |-> <<>>, average_match_score |-> 0]

(* job_description[:50] + '...' if len(job_description) > 50 *)
JobTitle(job_description) ==
    IF Len(job_description) > 50
    THEN SubSeq(job_description, 1, 50) \o <<".", ".", ".">>
    ELSE job_description

(* FilterMatches with > for >= : a match scoring exactly the minimum is
   dropped *)
FilterMatchesStrict(matches, minscore) ==
    SelectSeq(matches, LAMBDA m : m.match_score > minscore)

(* the matches kept: match.match_score >= self.min_similarity_score *)
FilterMatches(matches, minscore) ==
    SelectSeq(matches, LAMBDA m : m.match_score >= minscore)

(* the JobMatchResponse match_candidates_to_job builds from the matches *)
RankResponse(job_description, candidates, matches, minscore, maxc) ==
    The({[job_id |-> Get(candidates[1], "job_id", <<>>),
          job_title |-> JobTitle(job_description),
          total_candidates |-> Len(top_matches),
          candidates |-> top_matches,
          average_match_score |->
             IF top_matches # <<>>
             THEN SumSeq([i \in 1..Len(top_matches) |-> top_matches[i].match_score])
                     \div Len(top_matches)
             ELSE 0] :
         top_matches \in {Take(SortDesc(FilterMatches(matches, minscore)), maxc)}})

(* the try block of match_candidates_to_job, for a list that is not empty;
   an exception of the scoring is caught and answered with the empty
   response *)
RankCandidates(job_description, job_requirements, candidates, vec, minscore, maxc, over) ==
    The({[vectorizer |-> scored.vectorizer,
          raised |-> FALSE,
          scoring |-> [failed |-> scored.failed, raised |-> scored.raised,
                       matches |-> scored.matches],
          response |->
             IF scored.raised THEN EmptyResponse
             ELSE RankResponse(job_description, candidates, scored.matches,
                               minscore, maxc)] :
         scored \in {_calculate_similarity_scores(
                        _prepare_job_text(job_description, job_requirements),
                        [i \in 1..Len(candidates) |->
                            _prepare_candidate_text(
                                Get(candidates[i], "resume_text", <<>>),
                                Get(candidates[i], "skills", <<>>),
                                Get(candidates[i], "experience", <<>>))],
                        candidates, job_requirements, vec, over)}})

(* the caller's records after a rank call that stores the defaults it
   reads into them, as candidate.setdefault would *)
candidates_after_rank_setdefault(candidates) ==
    [i \in 1..Len(candidates) |->
        [f \in DOMAIN candidates[i] \cup {"resume_text", "skills", "experience"} |->
            Get(candidates[i], f, <<>>)]]

(* the caller's records after match_candidates_to_job: the loop over the
   candidates reads them with candidate.get and keeps a reference to each
   in candidate_info; no field is assigned and no list is changed in place *)
candidates_after_rank(candidates) ==
    [i \in 1..Len(candidates) |-> candidates[i]]

(* match_candidates_to_job that raises on an empty candidate list instead
   of returning the empty response *)
match_candidates_to_job_raising(job_description, job_requirements, candidates, vec, minscore, maxc, over) ==
    IF candidates = <<>>
    THEN [vectorizer |-> vec, raised |-> TRUE, response |-> EmptyResponse,
          scoring |-> [failed |-> FALSE, raised |-> FALSE, matches |-> <<>>]]
    ELSE RankCandidates(job_description, job_requirements, candidates,
                        vec, minscore, maxc, over)

(* MatchingService.match_candidates_to_job (rank): the vectorizer after the
   call, whether the call raised, the JobMatchResponse, and the outcome of
   the scoring it was built from *)
match_candidates_to_job(job_description, job_requirements, candidates, vec, minscore, maxc, over) ==
    IF candidates = <<>>
    THEN [vectorizer |-> vec, raised |-> FALSE, response |-> EmptyResponse,
          scoring |-> [failed |-> FALSE, raised |-> FALSE, matches |-> <<>>]]
    ELSE RankCandidates(job_description, job_requirements, candidates,
                        vec, minscore, maxc, over)

-----------------------------------------------------------------------------
(* MatchingService.get_job_recommendations_for_candidate: the vectorizer
   after the call and the list returned; the list is empty when there are
   no jobs and when the vectorizer raises *)
get_job_recommendations_for_candidate(candidate_text, candidate_skills, available_jobs, vec, minscore, over) ==
    IF available_jobs = <<>> THEN [vectorizer |-> vec, recommendations |-> <<>>]
    ELSE
    LET prepared_candidate_text ==
            _prepare_candidate_text(candidate_text, candidate_skills, <<>>)
        job_texts ==
            [i \in 1..Len(available_jobs) |->
                _prepare_job_text(Get(available_jobs[i], "description", <<>>),
                                  Get(available_jobs[i], "required_skills", <<>>))]
    IN  The({IF fit.raised THEN [vectorizer |-> vec, recommendations |-> <<>>]
             ELSE [vectorizer |-> fit.vectorizer,
                   recommendations |->
                      Take(SortDesc(FilterMatches(
                          The({[i \in 1..Len(available_jobs) |->
                                  [job |-> i,
                                   match_score |->
                                      cosine_similarity(candidate_vector,
                                          Transform(fit.vectorizer, job_texts[i]), over),
                                   matching_skills |->
                                      _analyze_skill_match(candidate_skills,
                                          Get(available_jobs[i], "required_skills",
                                              <<>>)).matching_skills]] :
                               candidate_vector \in
                                  {Transform(fit.vectorizer, prepared_candidate_text)}}),
                          minscore)), max_recommendations)] :
             fit \in {Fit(vec, <<prepared_candidate_text>> \o job_texts)}})

(* critical_skills of calculate_skill_gap_score *)
critical_skills ==
    << <<"p","y","t","h","o","n">>, <<"j","a","v","a">>, <<"s","q","l">>, <<"a","w","s">>, <<"r","e","a","c","t">>, <<"m","a","c","h","i","n","e"," ","l","e","a","r","n","i","n","g">>, <<"d","a","t","a"," ","s","c","i","e","n","c","e">> >>

(* the metrics of calculate_skill_gap_score when something is required,
   without the generated texts of personalized_insights.  Percentages are
   fixed-point: 100.0 is 100 * Scale. *)
SkillGapMetrics(candidate_skills, job_requirements) ==
    LET skills == _analyze_skill_match(candidate_skills, job_requirements)
        matching_skills == skills.matching_skills
        missing_skills == skills.missing_skills
        total_requirements == Len(job_requirements)
    IN  [skill_coverage |->
            (Len(matching_skills) * 100 * Scale) \div total_requirements,
         gap_score |->
            (Len(missing_skills) * 100 * Scale) \div total_requirements,
         critical_gaps |->
            Cardinality({i \in 1..Len(missing_skills) :
                \E k \in 1..Len(critical_skills) :
                    Contains(Lower(missing_skills[i]), Lower(critical_skills[k]))}),
         matching_skills_count |-> Len(matching_skills),
         missing_skills_count |-> Len(missing_skills),
         matching_skills |-> matching_skills,
         missing_skills |-> missing_skills]

(* calculate_skill_gap_score that reports no coverage when nothing is
   required *)
calculate_skill_gap_score_zero(candidate_skills, job_requirements) ==
    IF Len(job_requirements) = 0
    THEN [skill_coverage |-> 0,
          gap_score |-> 0,
          critical_gaps |-> 0,
          matching_skills_count |-> 0,
          missing_skills_count |-> 0]
    ELSE SkillGapMetrics(candidate_skills, job_requirements)

(* MatchingService.calculate_skill_gap_score *)
calculate_skill_gap_score(candidate_skills, job_requirements) ==
    IF Len(job_requirements) = 0
    THEN [skill_coverage |-> 100 * Scale,
          gap_score |-> 0,
          critical_gaps |-> 0,
          matching_skills_count |-> 0,
          missing_skills_count |-> 0]
    ELSE SkillGapMetrics(candidate_skills, job_requirements)

(* routers/counseling.py _calculate_skill_coverage, a fixed-point
   percentage: a requirement counts when it is part of a current skill *)
_calculate_skill_coverage(current_skills, required_skills) ==
    IF required_skills = <<>> THEN 100 * Scale
    ELSE LET matched_skills ==
                 Cardinality({i \in 1..Len(required_skills) :
                     \E k \in 1..Len(current_skills) :
                         Contains(Lower(current_skills[k]), Lower(required_skills[i]))})
         IN  (matched_skills * 100 * Scale) \div Len(required_skills)

-----------------------------------------------------------------------------
(* JobGeneratorService and StudentInsightsService: readiness percentages *)

(* Python's `x in items` on a list *)
InList(x, items) == \E i \in 1..Len(items) : items[i] = x

(* JobGeneratorService.generate_personalized_insights: the skill_breakdown
   of the insights.  matching_skills runs over the student's skills,
   missing_skills over the required ones; the percentage is 0 when nothing
   is required. *)
generate_personalized_insights(student_skills, required_skills) ==
    The({[matching_skills |-> matching_skills,
          missing_skills |->
              SelectSeq(required_skills, LAMBDA s : ~InList(s, student_skills)),
          skill_match_percentage |->
              IF required_skills # <<>>
              THEN (Len(matching_skills) * 100 * Scale) \div Len(required_skills)
              ELSE 0] :
         matching_skills \in
             {SelectSeq(student_skills, LAMBDA s : InList(s, required_skills))}})

-----------------------------------------------------------------------------
(* CounselingService: career readiness scores *)

Min2(a, b) == IF a <= b THEN a ELSE b

(* counseling_service.HIGH_DEMAND_SKILLS, as last assigned at import *)
HIGH_DEMAND_SKILLS ==
    << <<"p","y","t","h","o","n">>, <<"j","a","v","a","s","c","r","i","p","t">>,
       <<"r","e","a","c","t">>, <<"s","q","l">>, <<"a","w","s">>,
       <<"m","a","c","h","i","n","e"," ","l","e","a","r","n","i","n","g">>,
       <<"p","r","o","j","e","c","t"," ","m","a","n","a","g","e","m","e","n","t">>,
       <<"d","a","t","a"," ","a","n","a","l","y","s","i","s">>,
       <<"c","o","m","m","u","n","i","c","a","t","i","o","n">>,
       <<"p","r","o","b","l","e","m"," ","s","o","l","v","i","n","g">>,
       <<"a","g","i","l","e">>, <<"g","i","t">>, <<"d","o","c","k","e","r">>,
       <<"a","p","i"," ","d","e","v","e","l","o","p","m","e","n","t">>,
       <<"c","l","o","u","d"," ","c","o","m","p","u","t","i","n","g">> >>

(* the points of _calculate_overall_score before the final clamp *)
OverallPoints(user_skills, user_experience, missing_skills) ==
    LET skill_score == Min2(Len(user_skills) * 5 * Scale, 40 * Scale)
        experience_score == Min2(Len(user_experience) * 10 * Scale, 30 * Scale)
        high_demand_count ==
            Cardinality({i \in 1..Len(user_skills) :
                \E h \in 1..Len(HIGH_DEMAND_SKILLS) :
                    Contains(Lower(user_skills[i]), Lower(HIGH_DEMAND_SKILLS[h]))})
        high_demand_score == Min2(high_demand_count * 3 * Scale, 15 * Scale)
        gap_penalty == Min2(Len(missing_skills) * 2 * Scale, 15 * Scale)
    IN  skill_score + experience_score + high_demand_score - gap_penalty

(* _calculate_overall_score without max(0.0, min(100.0, score)) *)
_calculate_overall_score_unclamped(user_skills, user_experience, missing_skills) ==
    OverallPoints(user_skills, user_experience, missing_skills)

(* CounselingService._calculate_overall_score, a fixed-point score *)
_calculate_overall_score(user_skills, user_experience, missing_skills) ==
    Max2(0, Min2(100 * Scale, OverallPoints(user_skills, user_experience, missing_skills)))

(* counseling_service.load_job_dataset: the parsed file, or no rows when
   the file is absent or is not JSON *)
load_job_dataset(file) ==
    IF ~file.exists THEN <<>>
    ELSE IF ~file.json THEN <<>>
    ELSE file.value

(* whether counseling_service.process_job_dataset raises on the rows: it
   iterates the skill keywords of every row *)
process_job_dataset_raises(job_data) ==
    \E j \in 1..Len(job_data) : Get(job_data[j], "skillKeywords", <<>>) = None

(* counseling_service.ALL_CERTIFICATIONS, the distinct certifications of
   the rows *)
ALL_CERTIFICATIONS(job_data) ==
    UNION {{job_data[j].requiredCertifications[k] :
               k \in 1..Len(Get(job_data[j], "requiredCertifications", <<>>))} :
           j \in 1..Len(job_data)}

(* whether CounselingService._analyze_skills_against_market raises: for a
   skill with a word in it, cert.lower() is called on every certification,
   which a JSON number does not have *)
_analyze_skills_against_market_raises(job_data, user_skills) ==
    /\ \E i \in 1..Len(user_skills) : Strip(Lower(user_skills[i])) # <<>>
    /\ \E cert \in ALL_CERTIFICATIONS(job_data) : cert.type # "str"

(* skill_counts of _calculate_market_adjusted_score: how many times the
   lowercased, stripped skill occurs in the skillKeywords of the dataset *)
skill_counts(job_dataset, market_skill) ==
    SumSeq([j \in 1..Len(job_dataset) |->
        Cardinality({k \in 1..Len(Get(job_dataset[j], "skillKeywords", <<>>)) :
            Strip(Lower(job_dataset[j].skillKeywords[k])) = market_skill})])

(* the skills counted in skill_counts *)
MarketSkills(job_dataset) ==
    UNION {{Strip(Lower(job_dataset[j].skillKeywords[k])) :
               k \in 1..Len(Get(job_dataset[j], "skillKeywords", <<>>))} :
           j \in 1..Len(job_dataset)}

(* the largest count of a market skill that contains user_skill or is
   contained in it, 0 if there is none *)
skill_demand(job_dataset, user_skill) ==
    LET counts == {skill_counts(job_dataset, m) :
                      m \in {m \in MarketSkills(job_dataset) :
                                Contains(m, user_skill) \/ Contains(user_skill, m)}}
    IN  IF counts = {} THEN 0 ELSE CHOOSE c \in counts : \A d \in counts : d <= c

(* CounselingService._calculate_market_adjusted_score, a fixed-point score;
   a gap_info is a record whose missing_skills are records with a priority *)
_calculate_market_adjusted_score(job_dataset, user_skills, user_experience, skill_gap_analysis) ==
    LET skill_score == Min2((Len(user_skills) * 35 * Scale) \div 10, 35 * Scale)
        experience_score == Min2(Len(user_experience) * 8 * Scale, 25 * Scale)
        total_jobs == Len(job_dataset)
        skill_points(i) ==
            IF total_jobs > 0
            THEN Min2((skill_demand(job_dataset, Strip(Lower(user_skills[i]))) * 5 * Scale)
                          \div total_jobs,
                      (25 * Scale) \div 10)
            ELSE 0
        market_demand_score ==
            Min2(SumSeq([i \in 1..Len(user_skills) |-> skill_points(i)]), 25 * Scale)
        high_priority_gaps(g) ==
            Cardinality({k \in 1..Len(Get(g, "missing_skills", <<>>)) :
                Get(g.missing_skills[k], "priority", None) = <<"H","i","g","h">>})
        gap_penalty ==
            Min2(SumSeq([g \in 1..Len(skill_gap_analysis) |->
                     (high_priority_gaps(skill_gap_analysis[g]) * 15 * Scale) \div 10]),
                 10 * Scale)
        total_gaps ==
            SumSeq([g \in 1..Len(skill_gap_analysis) |->
                Len(Get(skill_gap_analysis[g], "missing_skills", <<>>))])
        alignment_bonus ==
            IF skill_gap_analysis = <<>> THEN 0
            ELSE IF total_gaps <= 3 THEN 15 * Scale
            ELSE IF total_gaps <= 6 THEN 10 * Scale
            ELSE IF total_gaps <= 10 THEN 5 * Scale
            ELSE 0
    IN  Max2(0, Min2(100 * Scale,
            skill_score + experience_score + market_demand_score
                - gap_penalty + alignment_bonus))

-----------------------------------------------------------------------------
(* StudentInsightsService.industry_paths: the key_skills of each industry *)
key_skills_technology ==
    << <<"p","r","o","g","r","a","m","m","i","n","g">>,
       <<"p","r","o","b","l","e","m","-","s","o","l","v","i","n","g">>,
       <<"v","e","r","s","i","o","n"," ","c","o","n","t","r","o","l">>,
       <<"t","e","s","t","i","n","g">>, <<"d","a","t","a","b","a","s","e","s">> >>
key_skills_healthcare ==
    << <<"p","a","t","i","e","n","t"," ","c","a","r","e">>,
       <<"m","e","d","i","c","a","l"," ","k","n","o","w","l","e","d","g","e">>,
       <<"c","o","m","m","u","n","i","c","a","t","i","o","n">>,
       <<"a","t","t","e","n","t","i","o","n"," ","t","o"," ","d","e","t","a","i","l">> >>
key_skills_business ==
    << <<"l","e","a","d","e","r","s","h","i","p">>,
       <<"s","t","r","a","t","e","g","i","c"," ","t","h","i","n","k","i","n","g">>,
       <<"c","o","m","m","u","n","i","c","a","t","i","o","n">>,
       <<"d","a","t","a"," ","a","n","a","l","y","s","i","s">> >>
key_skills_education ==
    << <<"t","e","a","c","h","i","n","g">>,
       <<"c","u","r","r","i","c","u","l","u","m"," ","d","e","v","e","l","o","p","m","e","n","t">>,
       <<"c","l","a","s","s","r","o","o","m"," ","m","a","n","a","g","e","m","e","n","t">>,
       <<"a","s","s","e","s","s","m","e","n","t">> >>
key_skills_finance ==
    << <<"f","i","n","a","n","c","i","a","l"," ","a","n","a","l","y","s","i","s">>,
       <<"a","c","c","o","u","n","t","i","n","g">>,
       <<"r","i","s","k"," ","m","a","n","a","g","e","m","e","n","t">>,
       <<"e","x","c","e","l">>,
       <<"f","i","n","a","n","c","i","a","l"," ","m","o","d","e","l","i","n","g">> >>
industry_paths ==
       <<"t","e","c","h","n","o","l","o","g","y">> :> key_skills_technology
    @@ <<"h","e","a","l","t","h","c","a","r","e">> :> key_skills_healthcare
    @@ <<"b","u","s","i","n","e","s","s">> :> key_skills_business
    @@ <<"e","d","u","c","a","t","i","o","n">> :> key_skills_education
    @@ <<"f","i","n","a","n","c","e">> :> key_skills_finance

(* Python's round(100 * m / n, 1) as a fixed-point percentage: the nearest
   tenth, a half going up (no half arises for the table's 4 and 5 key skills) *)
RoundTenth(m, n) == ((2000 * m + n) \div (2 * n)) * (Scale \div 10)

(* the industry readiness part of StudentInsightsService._generate_professional_insights:
   one entry per preferred industry found in industry_paths, or the
   division error when a table row has no key skills *)
industry_readiness(paths, technical, soft, preferred_industries) ==
    LET student_skills_lower == [i \in 1..Len(technical \o soft) |-> Lower((technical \o soft)[i])]
        known == SelectSeq(preferred_industries, LAMBDA industry : Lower(industry) \in DOMAIN paths)
        entry(industry) ==
            LET required_skills == paths[Lower(industry)]
                matching_skills ==
                    SelectSeq(required_skills, LAMBDA skill :
                        \E k \in 1..Len(student_skills_lower) :
                            Contains(student_skills_lower[k], skill))
            IN  [industry |-> industry,
                 readiness_score |-> RoundTenth(Len(matching_skills), Len(required_skills)),
                 matching_skills |-> matching_skills,
                 missing_skills |->
                     SelectSeq(required_skills, LAMBDA skill : ~InList(skill, matching_skills))]
    IN  IF \E i \in 1..Len(known) : paths[Lower(known[i])] = <<>>
        THEN [raised |-> TRUE, industry_readiness |-> <<>>]
        ELSE [raised |-> FALSE,
              industry_readiness |-> [i \in 1..Len(known) |-> entry(known[i])]]

-----------------------------------------------------------------------------
(* The inputs the calls are made with *)

(* the lists of at most n distinct members of S *)
SeqsUpTo(S, n) ==
    UNION {{s \in [1..k -> S] : \A i, j \in 1..k : s[i] = s[j] => i = j} : k \in 0..n}

(* jobs given to rank: a description and the required skills *)
JobPy ==
    [job_description |-> <<"P","y",","," ","D","B"," ","d","e","v",".">>,
     job_requirements |-> << <<"P","y">>, <<"D","B">> >>]

JobDb == [job_description |-> <<"d","b"," ","d","e","v">>, job_requirements |-> <<>>]

JobEmpty == [job_description |-> <<>>, job_requirements |-> <<>>]

SampleJobs == {JobPy, JobDb, JobEmpty}

(* candidate records given to rank; every field but the identifiers is
   optional *)
CandAnn ==
    [user_id |-> <<"u","1">>, user_name |-> <<"A","n","n">>, user_email |-> <<"a","@","x",".","i","o">>,
     resume_id |-> <<"r","1">>, resume_text |-> <<"p","y"," ","d","b">>, skills |-> << <<"p","y">>, <<"d","b">> >>,
     experience |-> << <<"d","e","v">> >>, experience_level |-> <<"m","i","d">>, job_id |-> <<"j","1">>]

CandBob ==
    [user_id |-> <<"u","2">>, user_name |-> <<"B","o","b">>, user_email |-> <<"b","@","x",".","i","o">>,
     resume_id |-> <<"r","2">>, resume_text |-> <<"d","b"," ","d","e","v">>, skills |-> <<>>,
     experience |-> <<>>, job_id |-> <<"j","1">>]

CandStop ==
    [user_id |-> <<"u","3">>, user_name |-> <<"C","y">>, user_email |-> <<"c","@","x",".","i","o">>,
     resume_id |-> <<"r","3">>, resume_text |-> <<"o","f"," ","t","h","e">>, job_id |-> <<"j","1">>]

CandBare == [user_id |-> <<"u","4">>, resume_id |-> <<"r","4">>, resume_text |-> <<"p","y">>]

SampleCandidates == {CandAnn, CandBob, CandStop, CandBare}

(* candidate profiles and job records given to the recommendation call *)
SampleProfiles ==
    { [candidate_text |-> <<"p","y"," ","d","b">>, candidate_skills |-> << <<"p","y">> >>],
      [candidate_text |-> <<"o","f">>, candidate_skills |-> <<>>] }

SampleOpenJobs ==
    { [id |-> <<"j","1">>, description |-> <<"p","y"," ","d","e","v">>, required_skills |-> << <<"p","y">> >>],
      [id |-> <<"j","2">>, description |-> <<"p","y","p","y">>, required_skills |-> <<>>],
      [id |-> <<"j","3">>] }

(* skills and requirements given to the skill gap call *)
SampleSkills ==
    { <<>>, << <<"p","y">> >>, << <<"p","y">>, <<"d","b">> >>,
      << <<"j","a","v","a">> >>, << <<"J","a","v","a","S","c","r","i","p","t">> >> }
SampleRequirements ==
    { <<>>, << <<"P","y">> >>, << <<"P","y">>, <<"D","B">>, <<"s","q","l">> >>,
      << <<"J","a","v","a">> >>, << <<"j","a","v","a","s","c","r","i","p","t">> >> }

(* the values the configuration can give the two settings *)
MinScoreChoices == {0, 30}
MaxCandidatesChoices == {3}

(* the candidate lists and the job lists the calls are made with *)
CandidateLists == SeqsUpTo(SampleCandidates, MaxCands)
OpenJobLists == SeqsUpTo(SampleOpenJobs, MaxJobs)

(* student skills and job skill keywords given to the insights call of the
   job generator; a resume can list a skill twice *)
SampleStudentSkills ==
    { <<>>, << <<"p","y">> >>, << <<"p","y">>, <<"d","b">> >>,
      << <<"p","y">>, <<"p","y">> >> }
SampleKeywords == { <<>>, << <<"p","y">> >>, << <<"p","y">>, <<"s","q","l">> >> }

(* the longest text given to _clean_text on its own *)
MaxText == 4

(* raw texts: a letter of each case, a digit, a space, a tab and a special
   character, in every arrangement *)
TextAlphabet == {"a", "Z", "7", " ", "\t", "-"}
CleanTexts == UNION {[1..k -> TextAlphabet] : k \in 0..MaxText}

(* the longest list of skills, of experience entries and of missing skills
   a readiness score is asked for *)
MaxSkills == 10

(* the skills a user lists, in the order they are listed; a longer list
   starts over *)
SkillPool ==
    << <<"P","y","t","h","o","n">>, <<"E","x","c","e","l">>, <<"R","e","a","c","t">>,
       <<"S","Q","L">>, <<"C","o","o","k","i","n","g">>, <<"A","W","S">>,
       <<"G","i","t">>, <<"D","o","c","k","e","r">>, <<"A","g","i","l","e">>,
       <<"J","a","v","a">> >>
FirstSkills(n) == [i \in 1..n |-> SkillPool[((i - 1) % Len(SkillPool)) + 1]]
SampleUserSkills == {FirstSkills(n) : n \in 0..MaxSkills}
SampleExperience == {[i \in 1..n |-> <<"j","o","b">>] : n \in {0, 1, MaxSkills}}
SampleMissingSkills == {[i \in 1..n |-> <<"g","o">>] : n \in {0, 2, MaxSkills}}

(* skill gap analyses as _identify_skill_gaps_from_dataset builds them: per
   career path the missing skills with their priority *)
GapOf(n, priority) == [career_path |-> <<"d","e","v">>, missing_skills |-> [i \in 1..n |-> [skill |-> <<"g","o">>, priority |-> priority]]]
SampleGapAnalyses ==
    { <<>>,
      <<GapOf(1, <<"H","i","g","h">>)>>,
      <<GapOf(4, <<"H","i","g","h">>), GapOf(4, <<"H","i","g","h">>)>>,
      <<GapOf(MaxSkills + 1, <<"M","e","d","i","u","m">>)>> }

(* what a student profile lists and the industries the student prefers *)
SampleTechnical ==
    { <<>>, <<<<"P","y","t","h","o","n"," ","P","r","o","g","r","a","m","m","i","n","g">>>>,
      <<<<"P","r","o","g","r","a","m","m","i","n","g">>, <<"U","n","i","t"," ","T","e","s","t","i","n","g">>, <<"D","a","t","a","b","a","s","e","s">>, <<"V","e","r","s","i","o","n"," ","C","o","n","t","r","o","l">>, <<"P","r","o","b","l","e","m","-","S","o","l","v","i","n","g">>>> }
SampleSoft == { <<>>, <<<<"C","o","m","m","u","n","i","c","a","t","i","o","n">>>> }
SamplePreferred ==
    { <<>>, <<<<"T","e","c","h","n","o","l","o","g","y">>>>, <<<<"B","u","s","i","n","e","s","s">>, <<"f","i","n","a","n","c","e">>>>,
      <<<<"S","p","a","c","e">>, <<"H","e","a","l","t","h","c","a","r","e">>, <<"E","d","u","c","a","t","i","o","n">>>> }

(* job_data.json as the server finds it: absent, not JSON, or JSON whose
   rows carry a job's title, industry, skill keywords and certifications.
   A certification is a JSON string or a JSON number, held as its text. *)
Str(text) == [type |-> "str", value |-> text]
Num(digits) == [type |-> "int", value |-> digits]
RowPy == [jobTitle |-> <<"D","a","t","a"," ","E","n","g","i","n","e","e","r">>, industry |-> <<"T","e","c","h","n","o","l","o","g","y">>, skillKeywords |-> <<<<"P","y","t","h","o","n">>, <<" ","S","Q","L">>>>, requiredCertifications |-> <<Str(<<"A","W","S"," ","C","e","r","t","i","f","i","e","d">>)>>]
RowWeb == [jobTitle |-> <<"W","e","b"," ","D","e","v","e","l","o","p","e","r">>, industry |-> <<"T","e","c","h","n","o","l","o","g","y">>, skillKeywords |-> <<<<"J","a","v","a","S","c","r","i","p","t">>, <<"R","e","a","c","t">>, <<"s","q","l">>>>, requiredCertifications |-> <<>>]
RowNullSkills == [jobTitle |-> <<"N","u","r","s","e">>, industry |-> <<"H","e","a","l","t","h","c","a","r","e">>, skillKeywords |-> None, requiredCertifications |-> <<>>]
RowNumberCert == [jobTitle |-> <<"N","u","r","s","e">>, industry |-> <<"H","e","a","l","t","h","c","a","r","e">>, skillKeywords |-> <<<<"P","a","t","i","e","n","t"," ","C","a","r","e">>>>, requiredCertifications |-> <<Num(<<"5">>)>>]
FileAbsent == [exists |-> FALSE, json |-> FALSE, value |-> <<>>]
FileNotJson == [exists |-> TRUE, json |-> FALSE, value |-> <<>>]
FileOf(rows) == [exists |-> TRUE, json |-> TRUE, value |-> rows]
SampleDataFiles ==
    { FileAbsent, FileNotJson, FileOf(<<>>), FileOf(<<RowPy, RowWeb>>),
      FileOf(<<RowPy, RowNullSkills>>), FileOf(<<RowPy, RowNumberCert>>) }

-----------------------------------------------------------------------------
(* State machine *)

NoCall == [op |-> "none", phase |-> "idle", args |-> <<>>, result |-> <<>>]

(* a job record of services/job_service.py, with the fields the service
   methods read *)
JobRecord(id, employer_id) ==
    [id |-> id, employer_id |-> employer_id, is_active |-> TRUE, applications_count |-> 0]

(* services/job_service.py create_default_jobs, run at import: the three
   sample jobs of employer 1 under the ids 1, 2 and 3 *)
DefaultJobsCreated ==
    /\ service_jobs_db = [id \in 1..3 |-> JobRecord(id, 1)]
    /\ job_id_counter = 4

(* no user is registered: users_db.json and users_by_email.json do not
   exist when routers/auth.py is imported, and the stores of
   services/auth_service.py start empty *)
AccountsEmpty ==
    /\ users_db_json = FileAbsent
    /\ users_by_email_json = FileAbsent
    /\ users_db = <<>>
    /\ users_by_email = <<>>
    /\ users_store = <<>>
    /\ email_to_user_id = <<>>
    /\ registered = 0

Init ==
    /\ min_similarity_score \in MinScoreChoices
    /\ max_candidates \in MaxCandidatesChoices
    /\ fpOver \in BOOLEAN
    /\ vectorizer = Unfitted
    /\ call = NoCall
    /\ memo = NoCall
    /\ JOB_DATASET = <<>>
    /\ job_data_json = FileAbsent
    /\ server = "running"
    /\ applications_db = <<>>
    /\ user_applications = <<>>
    /\ job_applications = <<>>
    /\ issued = 0
    /\ service_applications_db = <<>>
    /\ application_id_counter = 1
    /\ DefaultJobsCreated
    /\ AccountsEmpty

(* a caller issues a rank request *)
SubmitRank(jobs, candidateLists) ==
    /\ server = "running"
    /\ call.phase # "pending"
    /\ \E job \in jobs, candidates \in candidateLists :
          call' = [op |-> "rank", phase |-> "pending",
                   args |-> [job_description |-> job.job_description,
                             job_requirements |-> job.job_requirements,
                             candidates |-> candidates],
                   result |-> <<>>]
    /\ UNCHANGED <<min_similarity_score, max_candidates, fpOver, vectorizer, memo, elsewhere>>

(* match_candidates_to_job runs *)
HandleRank ==
    /\ call.op = "rank" /\ call.phase = "pending"
    /\ \E r \in {match_candidates_to_job(call.args.job_description,
                    call.args.job_requirements, call.args.candidates,
                    vectorizer, min_similarity_score, max_candidates, fpOver)} :
           /\ vectorizer' = r.vectorizer
           /\ call' = [call EXCEPT !.phase = "done",
                          !.args.candidates = candidates_after_rank(call.args.candidates),
                          !.result = [raised |-> r.raised, response |-> r.response,
                                      scoring |-> r.scoring,
                                      passed |-> call.args.candidates]]
    /\ UNCHANGED <<min_similarity_score, max_candidates, fpOver, memo, elsewhere>>

(* a caller issues a recommendation request *)
SubmitRecommend(profiles, jobLists) ==
    /\ server = "running"
    /\ call.phase # "pending"
    /\ \E profile \in profiles, available_jobs \in jobLists :
          call' = [op |-> "recommend", phase |-> "pending",
                   args |-> [candidate_text |-> profile.candidate_text,
                             candidate_skills |-> profile.candidate_skills,
                             available_jobs |-> available_jobs],
                   result |-> <<>>]
    /\ UNCHANGED <<min_similarity_score, max_candidates, fpOver, vectorizer, memo, elsewhere>>

(* get_job_recommendations_for_candidate runs *)
HandleRecommend ==
    /\ call.op = "recommend" /\ call.phase = "pending"
    /\ \E r \in {get_job_recommendations_for_candidate(call.args.candidate_text,
                    call.args.candidate_skills, call.args.available_jobs,
                    vectorizer, min_similarity_score, fpOver)} :
           /\ vectorizer' = r.vectorizer
           /\ call' = [call EXCEPT !.phase = "done",
                          !.result = [raised |-> FALSE,
                                      recommendations |-> r.recommendations]]
    /\ UNCHANGED <<min_similarity_score, max_candidates, fpOver, memo, elsewhere>>

(* a caller issues a skill gap request or a skill coverage request *)
SubmitGap ==
    /\ server = "running"
    /\ call.phase # "pending"
    /\ \E candidate_skills \in SampleSkills, job_requirements \in SampleRequirements,
          op \in {"gap", "coverage"} :
          call' = [op |-> op, phase |-> "pending",
                   args |-> [candidate_skills |-> candidate_skills,
                             job_requirements |-> job_requirements],
                   result |-> <<>>]
    /\ UNCHANGED <<min_similarity_score, max_candidates, fpOver, vectorizer, memo, elsewhere>>

(* calculate_skill_gap_score runs *)
HandleGap ==
    /\ call.op = "gap" /\ call.phase = "pending"
    /\ call' = [call EXCEPT !.phase = "done",
                   !.result = [raised |-> FALSE,
                               gap |-> calculate_skill_gap_score(
                                           call.args.candidate_skills,
                                           call.args.job_requirements)]]
    /\ UNCHANGED <<min_similarity_score, max_candidates, fpOver, vectorizer, memo, elsewhere>>

(* _calculate_skill_coverage runs *)
HandleCoverage ==
    /\ call.op = "coverage" /\ call.phase = "pending"
    /\ call' = [call EXCEPT !.phase = "done",
                   !.result = [raised |-> FALSE,
                               coverage |-> _calculate_skill_coverage(
                                               call.args.candidate_skills,
                                               call.args.job_requirements)]]
    /\ UNCHANGED <<min_similarity_score, max_candidates, fpOver, vectorizer, memo, elsewhere>>

(* the service is asked to clean one raw text *)
InitText ==
    /\ min_similarity_score = 0
    /\ max_candidates \in MaxCandidatesChoices
    /\ fpOver = FALSE
    /\ vectorizer = Unfitted
    /\ \E text \in CleanTexts :
          call = [op |-> "clean", phase |-> "pending", args |-> [text |-> text],
                  result |-> <<>>]
    /\ memo = NoCall
    /\ JOB_DATASET = <<>>
    /\ job_data_json = FileAbsent
    /\ server = "running"
    /\ applications_db = <<>>
    /\ user_applications = <<>>
    /\ job_applications = <<>>
    /\ issued = 0
    /\ service_applications_db = <<>>
    /\ application_id_counter = 1
    /\ DefaultJobsCreated
    /\ AccountsEmpty

(* MatchingService._clean_text runs *)
HandleClean ==
    /\ call.op = "clean" /\ call.phase = "pending"
    /\ call' = [call EXCEPT !.phase = "done",
                   !.result = [raised |-> FALSE, text |-> _clean_text(call.args.text)]]
    /\ UNCHANGED <<min_similarity_score, max_candidates, fpOver, vectorizer, memo, elsewhere>>

NextText == HandleClean

SpecText == InitText /\ [][NextText]_vars

(* the observer keeps the request just answered and its answer, to compare
   a later answer to the same request with it *)
Remember ==
    /\ memo = NoCall
    /\ call.phase = "done"
    /\ memo' = call
    /\ call' = NoCall
    /\ UNCHANGED <<min_similarity_score, max_candidates, fpOver, vectorizer, elsewhere>>

Next ==
    \/ SubmitRank(SampleJobs, CandidateLists)
    \/ HandleRank
    \/ SubmitRecommend(SampleProfiles, OpenJobLists)
    \/ HandleRecommend
    \/ SubmitGap
    \/ HandleGap
    \/ HandleCoverage

Spec == Init /\ [][Next]_vars

(* the same service, called repeatedly with requests of a smaller family
   and observed across calls *)
RepeatJobs == {JobPy, JobDb}
RepeatCandidates == {CandAnn, CandBob}
RepeatProfiles == {[candidate_text |-> <<"p","y"," ","d","b">>, candidate_skills |-> <<>>]}
RepeatOpenJobs == {[id |-> <<"j","1">>, description |-> <<"p","y"," ","d","e","v">>]}
RepeatCandidateLists == SeqsUpTo(RepeatCandidates, MaxCands)
RepeatOpenJobLists == SeqsUpTo(RepeatOpenJobs, MaxJobs)

NextRepeat ==
    \/ SubmitRank(RepeatJobs, RepeatCandidateLists)
    \/ HandleRank
    \/ SubmitRecommend(RepeatProfiles, RepeatOpenJobLists)
    \/ HandleRecommend
    \/ Remember

SpecRepeat == Init /\ [][NextRepeat]_vars

(* the services that compute readiness percentages and scores *)

(* a caller asks the job generator for the insights of a student *)
SubmitInsights ==
    /\ server = "running"
    /\ call.phase # "pending"
    /\ \E student_skills \in SampleStudentSkills, required_skills \in SampleKeywords :
          call' = [op |-> "insights", phase |-> "pending",
                   args |-> [student_skills |-> student_skills,
                             required_skills |-> required_skills],
                   result |-> <<>>]
    /\ UNCHANGED <<min_similarity_score, max_candidates, fpOver, vectorizer, memo, elsewhere>>

(* JobGeneratorService.generate_personalized_insights runs *)
HandleInsights ==
    /\ call.op = "insights" /\ call.phase = "pending"
    /\ call' = [call EXCEPT !.phase = "done",
                   !.result = [raised |-> FALSE,
                               skill_breakdown |-> generate_personalized_insights(
                                   call.args.student_skills,
                                   call.args.required_skills)]]
    /\ UNCHANGED <<min_similarity_score, max_candidates, fpOver, vectorizer, memo, elsewhere>>

(* the server process starts with any job_data.json on disk; the readiness
   computations read none of the matching settings *)
InitReadiness ==
    /\ min_similarity_score = 0
    /\ max_candidates \in MaxCandidatesChoices
    /\ fpOver = FALSE
    /\ vectorizer = Unfitted
    /\ call = NoCall
    /\ memo = NoCall
    /\ JOB_DATASET = <<>>
    /\ job_data_json \in SampleDataFiles
    /\ server = "starting"
    /\ applications_db = <<>>
    /\ user_applications = <<>>
    /\ job_applications = <<>>
    /\ issued = 0
    /\ service_applications_db = <<>>
    /\ application_id_counter = 1
    /\ DefaultJobsCreated
    /\ AccountsEmpty

(* the import of counseling_service at startup: JOB_DATASET is loaded and
   processed; an exception of the import ends the process *)
ImportCounseling ==
    /\ server = "starting"
    /\ JOB_DATASET' = load_job_dataset(job_data_json)
    /\ server' = IF process_job_dataset_raises(load_job_dataset(job_data_json))
                 THEN "crashed" ELSE "running"
    /\ UNCHANGED <<min_similarity_score, max_candidates, fpOver, vectorizer, call, memo, job_data_json, stores, accounts>>

(* a caller asks the counseling service for a readiness score *)
SubmitScore ==
    /\ server = "running"
    /\ call.phase # "pending"
    /\ \/ \E user_skills \in SampleUserSkills, user_experience \in SampleExperience, missing_skills \in SampleMissingSkills :
             call' = [op |-> "overall_score", phase |-> "pending",
                      args |-> [user_skills |-> user_skills,
                                user_experience |-> user_experience,
                                missing_skills |-> missing_skills],
                      result |-> <<>>]
       \/ \E user_skills \in SampleUserSkills, user_experience \in SampleExperience, skill_gap_analysis \in SampleGapAnalyses :
             call' = [op |-> "market_score", phase |-> "pending",
                      args |-> [user_skills |-> user_skills,
                                user_experience |-> user_experience,
                                skill_gap_analysis |-> skill_gap_analysis],
                      result |-> <<>>]
    /\ UNCHANGED <<min_similarity_score, max_candidates, fpOver, vectorizer, memo, elsewhere>>

(* CounselingService._calculate_overall_score runs *)
HandleOverallScore ==
    /\ call.op = "overall_score" /\ call.phase = "pending"
    /\ call' = [call EXCEPT !.phase = "done",
                   !.result = [raised |-> FALSE,
                               score |-> _calculate_overall_score(
                                   call.args.user_skills, call.args.user_experience,
                                   call.args.missing_skills)]]
    /\ UNCHANGED <<min_similarity_score, max_candidates, fpOver, vectorizer, memo, elsewhere>>

(* CounselingService._calculate_market_adjusted_score runs *)
HandleMarketScore ==
    /\ call.op = "market_score" /\ call.phase = "pending"
    /\ call' = [call EXCEPT !.phase = "done",
                   !.result = [raised |-> FALSE,
                               score |-> _calculate_market_adjusted_score(
                                   JOB_DATASET, call.args.user_skills,
                                   call.args.user_experience,
                                   call.args.skill_gap_analysis)]]
    /\ UNCHANGED <<min_similarity_score, max_candidates, fpOver, vectorizer, memo, elsewhere>>

(* a caller asks the counseling service for the market analysis of skills *)
SubmitAnalysis ==
    /\ server = "running"
    /\ call.phase # "pending"
    /\ \E user_skills \in SampleUserSkills :
          call' = [op |-> "market_analysis", phase |-> "pending",
                   args |-> [user_skills |-> user_skills], result |-> <<>>]
    /\ UNCHANGED <<min_similarity_score, max_candidates, fpOver, vectorizer, memo, elsewhere>>

(* CounselingService._analyze_skills_against_market runs, as far as it
   answers or raises *)
HandleAnalysis ==
    /\ call.op = "market_analysis" /\ call.phase = "pending"
    /\ call' = [call EXCEPT !.phase = "done",
                   !.result = [raised |-> _analyze_skills_against_market_raises(
                                              JOB_DATASET, call.args.user_skills)]]
    /\ UNCHANGED <<min_similarity_score, max_candidates, fpOver, vectorizer, memo, elsewhere>>

(* a caller asks the student insights service for the industry readiness *)
SubmitIndustry ==
    /\ server = "running"
    /\ call.phase # "pending"
    /\ \E technical \in SampleTechnical, soft \in SampleSoft, preferred_industries \in SamplePreferred :
          call' = [op |-> "industry", phase |-> "pending",
                   args |-> [technical |-> technical, soft |-> soft,
                             preferred_industries |-> preferred_industries],
                   result |-> <<>>]
    /\ UNCHANGED <<min_similarity_score, max_candidates, fpOver, vectorizer, memo, elsewhere>>

(* the industry readiness of StudentInsightsService runs *)
HandleIndustry ==
    /\ call.op = "industry" /\ call.phase = "pending"
    /\ call' = [call EXCEPT !.phase = "done",
                   !.result = industry_readiness(industry_paths, call.args.technical,
                                  call.args.soft, call.args.preferred_industries)]
    /\ UNCHANGED <<min_similarity_score, max_candidates, fpOver, vectorizer, memo, elsewhere>>

NextReadiness ==
    \/ ImportCounseling
    \/ SubmitInsights
    \/ HandleInsights
    \/ SubmitGap
    \/ HandleGap
    \/ HandleCoverage
    \/ SubmitScore
    \/ HandleOverallScore
    \/ HandleMarketScore
    \/ SubmitIndustry
    \/ HandleIndustry
    \/ SubmitAnalysis
    \/ HandleAnalysis

SpecReadiness == InitReadiness /\ [][NextReadiness]_vars

-----------------------------------------------------------------------------
(* Job applications: routers/applications.py and ApplicationService *)

(* how many applications are created in a run *)
MaxApplications == 3

(* the students and employers that call, and the stores of the other
   routers as the handlers find them *)
Students == {"s1", "s2"}
Employers == {"e1", "e2"}
jobs_db ==
    [j \in {"j1", "j2", "j3"} |->
        [status |-> IF j = "j3" THEN "closed" ELSE "open",
         employer_id |-> IF j = "j2" THEN "e2" ELSE "e1"]]
resumes_db == [r \in {"r1", "r2"} |-> [user_id |-> IF r = "r1" THEN "s1" ELSE "s2"]]
JobIds == {"j1", "j2", "j3", "j4"}
ResumeIds == {"r1", "r2", "r3"}
ApplicationIds == 1..MaxApplications

(* schemas.ApplicationStatus *)
ApplicationStatus == {"applied", "reviewed", "shortlisted", "interviewed", "rejected", "hired"}

(* the statuses an employer sets in the runs *)
SampleStatusUpdates == {"hired", "rejected"}

(* how many jobs JobService.create_job stores in a run beside the default
   jobs *)
MaxJobPostings == 1

(* the job ids, the users and the employers of the calls to the services *)
ServiceJobIds == 1..(4 + MaxJobPostings)
ServiceUsers == {7, 8}
ServiceEmployers == {2}

(* how many applications ApplicationService.create_application stores in a
   run *)
MaxServiceApplications == 2
ServiceApplicationIds == 1..MaxServiceApplications

(* d without the key k *)
Without(d, k) == [x \in DOMAIN d \ {k} |-> d[x]]

(* an application that is stored before and after the step has another
   status after it *)
StatusChanged ==
    \E id \in DOMAIN applications_db \cap DOMAIN applications_db' :
        applications_db'[id].status # applications_db[id].status

(* an application that is stored before and after the step, with the
   status hired or rejected before it, has another status after it *)
FinalStatusChanged ==
    \E id \in DOMAIN applications_db \cap DOMAIN applications_db' :
        /\ applications_db[id].status \in {"hired", "rejected"}
        /\ applications_db'[id].status # applications_db[id].status

(* the answer of a handler: the HTTP status, or the name of the exception
   a service method raises, with what an observer of the call sees: whether
   it changed the status of a stored application *)
Answered(op, code) ==
    call' = [op |-> op, phase |-> "done", args |-> <<>>,
             result |-> [raised |-> code \notin {"200", "201"}, status_code |-> code,
                         status_changed |-> StatusChanged,
                         final_status_changed |-> FinalStatusChanged]]

(* routers/applications.py _user_has_applied_to_job *)
_user_has_applied_to_job(user_id, job_id) ==
    \E k \in 1..Len(Get(user_applications, user_id, <<>>)) :
        LET app_id == user_applications[user_id][k]
        IN  /\ app_id \in DOMAIN applications_db
            /\ applications_db[app_id].job_id = job_id

(* the answer of apply_to_job, with what an observer of the call sees:
   whether the user had a stored application for the job when the call
   began, and whether the call changed the stores *)
ApplyAnswered(code, user_id, job_id) ==
    call' = [op |-> "apply", phase |-> "done", args |-> <<>>,
             result |-> [raised |-> code # "201", status_code |-> code,
                         status_changed |-> StatusChanged,
                         final_status_changed |-> FinalStatusChanged,
                         had_applied |-> _user_has_applied_to_job(user_id, job_id),
                         stores_changed |->
                            <<applications_db', user_applications', job_applications'>>
                               # <<applications_db, user_applications, job_applications>>]]

(* apply_to_job that does not look for an earlier application *)
apply_to_job_unchecked(user_id, job_id, resume_id) ==
    /\ server = "running"
    /\ IF job_id \notin DOMAIN jobs_db THEN
          UNCHANGED stores /\ ApplyAnswered("404", user_id, job_id)
       ELSE IF jobs_db[job_id].status # "open" THEN
          UNCHANGED stores /\ ApplyAnswered("400", user_id, job_id)
       ELSE IF resume_id \notin DOMAIN resumes_db THEN
          UNCHANGED stores /\ ApplyAnswered("404", user_id, job_id)
       ELSE IF resumes_db[resume_id].user_id # user_id THEN
          UNCHANGED stores /\ ApplyAnswered("403", user_id, job_id)
       ELSE
          /\ issued < MaxApplications
          /\ issued' = issued + 1
          /\ applications_db' = applications_db @@
                ((issued + 1) :> [job_id |-> job_id, user_id |-> user_id,
                                  resume_id |-> resume_id, status |-> "applied"])
          /\ user_applications' =
                (user_id :> Append(Get(user_applications, user_id, <<>>), issued + 1))
                    @@ user_applications
          /\ job_applications' =
                (job_id :> Append(Get(job_applications, job_id, <<>>), issued + 1))
                    @@ job_applications
          /\ UNCHANGED service
          /\ ApplyAnswered("201", user_id, job_id)
    /\ UNCHANGED <<min_similarity_score, max_candidates, fpOver, vectorizer, memo, JOB_DATASET, job_data_json, server, accounts>>

(* the user's list made before the request is validated *)
WithUserList(user_id) ==
    IF user_id \in DOMAIN user_applications THEN user_applications
    ELSE (user_id :> <<>>) @@ user_applications

(* a refusal of apply_to_job_listing_user_first *)
RefusedWithUserList(code, user_id, job_id) ==
    /\ user_applications' = WithUserList(user_id)
    /\ UNCHANGED <<applications_db, job_applications, issued, service>>
    /\ ApplyAnswered(code, user_id, job_id)

(* apply_to_job that makes the user's list of applications before it
   validates the request *)
apply_to_job_listing_user_first(user_id, job_id, resume_id) ==
    /\ server = "running"
    /\ IF job_id \notin DOMAIN jobs_db THEN
          RefusedWithUserList("404", user_id, job_id)
       ELSE IF jobs_db[job_id].status # "open" THEN
          RefusedWithUserList("400", user_id, job_id)
       ELSE IF resume_id \notin DOMAIN resumes_db THEN
          RefusedWithUserList("404", user_id, job_id)
       ELSE IF resumes_db[resume_id].user_id # user_id THEN
          RefusedWithUserList("403", user_id, job_id)
       ELSE IF _user_has_applied_to_job(user_id, job_id) THEN
          RefusedWithUserList("400", user_id, job_id)
       ELSE
          /\ issued < MaxApplications
          /\ issued' = issued + 1
          /\ applications_db' = applications_db @@
                ((issued + 1) :> [job_id |-> job_id, user_id |-> user_id,
                                  resume_id |-> resume_id, status |-> "applied"])
          /\ user_applications' =
                (user_id :> Append(Get(user_applications, user_id, <<>>), issued + 1))
                    @@ user_applications
          /\ job_applications' =
                (job_id :> Append(Get(job_applications, job_id, <<>>), issued + 1))
                    @@ job_applications
          /\ UNCHANGED service
          /\ ApplyAnswered("201", user_id, job_id)
    /\ UNCHANGED <<min_similarity_score, max_candidates, fpOver, vectorizer, memo, JOB_DATASET, job_data_json, server, accounts>>

(* routers/applications.py apply_to_job; the application id of uuid4 is
   the next id never given out *)
apply_to_job(user_id, job_id, resume_id) ==
    /\ server = "running"
    /\ IF job_id \notin DOMAIN jobs_db THEN
          UNCHANGED stores /\ ApplyAnswered("404", user_id, job_id)
       ELSE IF jobs_db[job_id].status # "open" THEN
          UNCHANGED stores /\ ApplyAnswered("400", user_id, job_id)
       ELSE IF resume_id \notin DOMAIN resumes_db THEN
          UNCHANGED stores /\ ApplyAnswered("404", user_id, job_id)
       ELSE IF resumes_db[resume_id].user_id # user_id THEN
          UNCHANGED stores /\ ApplyAnswered("403", user_id, job_id)
       ELSE IF _user_has_applied_to_job(user_id, job_id) THEN
          UNCHANGED stores /\ ApplyAnswered("400", user_id, job_id)
       ELSE
          /\ issued < MaxApplications
          /\ issued' = issued + 1
          /\ applications_db' = applications_db @@
                ((issued + 1) :> [job_id |-> job_id, user_id |-> user_id,
                                  resume_id |-> resume_id, status |-> "applied"])
          /\ user_applications' =
                (user_id :> Append(Get(user_applications, user_id, <<>>), issued + 1))
                    @@ user_applications
          /\ job_applications' =
                (job_id :> Append(Get(job_applications, job_id, <<>>), issued + 1))
                    @@ job_applications
          /\ UNCHANGED service
          /\ ApplyAnswered("201", user_id, job_id)
    /\ UNCHANGED <<min_similarity_score, max_candidates, fpOver, vectorizer, memo, JOB_DATASET, job_data_json, server, accounts>>

(* the employer owns the job of the application (lines 340-341) *)
OwnsJobOf(application_id, employer_id) ==
    /\ application_id \in DOMAIN applications_db
    /\ applications_db[application_id].job_id \in DOMAIN jobs_db
    /\ jobs_db[applications_db[application_id].job_id].employer_id = employer_id

(* the answer of update_application_status, with what an observer of the
   call sees: whether the application was stored and the caller owned its
   job when the call began, and whether the call changed the stores *)
UpdateAnswered(code, application_id, employer_id) ==
    call' = [op |-> "update", phase |-> "done", args |-> <<>>,
             result |-> [raised |-> code # "200", status_code |-> code,
                         status_changed |-> StatusChanged,
                         final_status_changed |-> FinalStatusChanged,
                         found |-> application_id \in DOMAIN applications_db,
                         owner |-> OwnsJobOf(application_id, employer_id),
                         stores_changed |->
                            <<applications_db', user_applications', job_applications'>>
                               # <<applications_db, user_applications, job_applications>>]]

(* update_application_status that asks only that the job of the
   application exists, not whose it is *)
update_application_status_any_employer(application_id, new_status, employer_id) ==
    /\ server = "running"
    /\ IF application_id \notin DOMAIN applications_db THEN
          UNCHANGED stores /\ UpdateAnswered("404", application_id, employer_id)
       ELSE IF applications_db[application_id].job_id \notin DOMAIN jobs_db THEN
          UNCHANGED stores /\ UpdateAnswered("403", application_id, employer_id)
       ELSE
          /\ applications_db' = [applications_db EXCEPT ![application_id].status = new_status]
          /\ UNCHANGED <<user_applications, job_applications, issued, service>>
          /\ UpdateAnswered("200", application_id, employer_id)
    /\ UNCHANGED <<min_similarity_score, max_candidates, fpOver, vectorizer, memo, JOB_DATASET, job_data_json, server, accounts>>

(* routers/applications.py update_application_status *)
update_application_status(application_id, new_status, employer_id) ==
    /\ server = "running"
    /\ IF application_id \notin DOMAIN applications_db THEN
          UNCHANGED stores /\ UpdateAnswered("404", application_id, employer_id)
       ELSE IF \/ applications_db[application_id].job_id \notin DOMAIN jobs_db
               \/ jobs_db[applications_db[application_id].job_id].employer_id # employer_id THEN
          UNCHANGED stores /\ UpdateAnswered("403", application_id, employer_id)
       ELSE
          /\ applications_db' = [applications_db EXCEPT ![application_id].status = new_status]
          /\ UNCHANGED <<user_applications, job_applications, issued, service>>
          /\ UpdateAnswered("200", application_id, employer_id)
    /\ UNCHANGED <<min_similarity_score, max_candidates, fpOver, vectorizer, memo, JOB_DATASET, job_data_json, server, accounts>>

(* the answer of withdraw_application, with what an observer of the call
   sees: the application asked for, whether it was stored, the caller's own
   and hired or rejected when the call began, and whether the call changed
   the stores *)
WithdrawAnswered(code, application_id, user_id) ==
    call' = [op |-> "withdraw", phase |-> "done", args |-> <<>>,
             result |-> [raised |-> code # "200", status_code |-> code,
                         status_changed |-> StatusChanged,
                         final_status_changed |-> FinalStatusChanged,
                         application_id |-> application_id,
                         found |-> application_id \in DOMAIN applications_db,
                         owner |-> /\ application_id \in DOMAIN applications_db
                                   /\ applications_db[application_id].user_id = user_id,
                         was_final |-> /\ application_id \in DOMAIN applications_db
                                       /\ applications_db[application_id].status
                                             \in {"hired", "rejected"},
                         stores_changed |->
                            <<applications_db', user_applications', job_applications'>>
                               # <<applications_db, user_applications, job_applications>>]]

(* withdraw_application that leaves the id in the job's list *)
withdraw_application_keeping_job_list(application_id, user_id) ==
    /\ server = "running"
    /\ IF application_id \notin DOMAIN applications_db THEN
          UNCHANGED stores /\ WithdrawAnswered("404", application_id, user_id)
       ELSE IF applications_db[application_id].user_id # user_id THEN
          UNCHANGED stores /\ WithdrawAnswered("403", application_id, user_id)
       ELSE IF applications_db[application_id].status \in {"hired", "rejected"} THEN
          UNCHANGED stores /\ WithdrawAnswered("400", application_id, user_id)
       ELSE
          /\ applications_db' = Without(applications_db, application_id)
          /\ user_applications' =
                IF user_id \in DOMAIN user_applications
                THEN [user_applications EXCEPT ![user_id] =
                         SelectSeq(@, LAMBDA app_id : app_id # application_id)]
                ELSE user_applications
          /\ UNCHANGED <<job_applications, issued, service>>
          /\ WithdrawAnswered("200", application_id, user_id)
    /\ UNCHANGED <<min_similarity_score, max_candidates, fpOver, vectorizer, memo, JOB_DATASET, job_data_json, server, accounts>>

(* withdraw_application that does not look at the status *)
withdraw_application_any_status(application_id, user_id) ==
    /\ server = "running"
    /\ IF application_id \notin DOMAIN applications_db THEN
          UNCHANGED stores /\ WithdrawAnswered("404", application_id, user_id)
       ELSE IF applications_db[application_id].user_id # user_id THEN
          UNCHANGED stores /\ WithdrawAnswered("403", application_id, user_id)
       ELSE
          /\ applications_db' = Without(applications_db, application_id)
          /\ user_applications' =
                IF user_id \in DOMAIN user_applications
                THEN [user_applications EXCEPT ![user_id] =
                         SelectSeq(@, LAMBDA app_id : app_id # application_id)]
                ELSE user_applications
          /\ job_applications' =
                LET job_id == applications_db[application_id].job_id
                IN  IF job_id \in DOMAIN job_applications
                    THEN [job_applications EXCEPT ![job_id] =
                             SelectSeq(@, LAMBDA app_id : app_id # application_id)]
                    ELSE job_applications
          /\ UNCHANGED <<issued, service>>
          /\ WithdrawAnswered("200", application_id, user_id)
    /\ UNCHANGED <<min_similarity_score, max_candidates, fpOver, vectorizer, memo, JOB_DATASET, job_data_json, server, accounts>>

(* routers/applications.py withdraw_application *)
withdraw_application(application_id, user_id) ==
    /\ server = "running"
    /\ IF application_id \notin DOMAIN applications_db THEN
          UNCHANGED stores /\ WithdrawAnswered("404", application_id, user_id)
       ELSE IF applications_db[application_id].user_id # user_id THEN
          UNCHANGED stores /\ WithdrawAnswered("403", application_id, user_id)
       ELSE IF applications_db[application_id].status \in {"hired", "rejected"} THEN
          UNCHANGED stores /\ WithdrawAnswered("400", application_id, user_id)
       ELSE
          /\ applications_db' = Without(applications_db, application_id)
          /\ user_applications' =
                IF user_id \in DOMAIN user_applications
                THEN [user_applications EXCEPT ![user_id] =
                         SelectSeq(@, LAMBDA app_id : app_id # application_id)]
                ELSE user_applications
          /\ job_applications' =
                LET job_id == applications_db[application_id].job_id
                IN  IF job_id \in DOMAIN job_applications
                    THEN [job_applications EXCEPT ![job_id] =
                             SelectSeq(@, LAMBDA app_id : app_id # application_id)]
                    ELSE job_applications
          /\ UNCHANGED <<issued, service>>
          /\ WithdrawAnswered("200", application_id, user_id)
    /\ UNCHANGED <<min_similarity_score, max_candidates, fpOver, vectorizer, memo, JOB_DATASET, job_data_json, server, accounts>>

(* ApplicationService.get_application_by_job_and_user finds an application *)
get_application_by_job_and_user(job_id, user_id) ==
    \E id \in DOMAIN service_applications_db :
        /\ service_applications_db[id].job_id = job_id
        /\ service_applications_db[id].job_seeker_id = user_id

(* JobService.create_job: the job under the next id, with no applications *)
create_job(employer_id) ==
    /\ server = "running"
    /\ job_id_counter < 4 + MaxJobPostings
    /\ service_jobs_db' = service_jobs_db @@
          (job_id_counter :> JobRecord(job_id_counter, employer_id))
    /\ job_id_counter' = job_id_counter + 1
    /\ UNCHANGED <<applications_db, user_applications, job_applications, issued, service_applications_db, application_id_counter>>
    /\ Answered("create_job", "200")
    /\ UNCHANGED <<min_similarity_score, max_candidates, fpOver, vectorizer, memo, JOB_DATASET, job_data_json, server, accounts>>

(* JobService.delete_job: the job leaves jobs_db; application_service's
   applications_db is not touched *)
delete_job(job_id) ==
    /\ server = "running"
    /\ IF job_id \notin DOMAIN service_jobs_db
       THEN UNCHANGED stores /\ Answered("delete_job", "ValueError")
       ELSE /\ service_jobs_db' = Without(service_jobs_db, job_id)
            /\ UNCHANGED <<applications_db, user_applications, job_applications, issued, service_applications_db, application_id_counter, job_id_counter>>
            /\ Answered("delete_job", "200")
    /\ UNCHANGED <<min_similarity_score, max_candidates, fpOver, vectorizer, memo, JOB_DATASET, job_data_json, server, accounts>>

(* JobService.increment_applications_count *)
increment_applications_count(db, job_id) ==
    IF job_id \in DOMAIN db
    THEN [db EXCEPT ![job_id].applications_count = @ + 1]
    ELSE db

(* JobService.decrement_applications_count *)
decrement_applications_count(db, job_id) ==
    IF job_id \in DOMAIN db /\ db[job_id].applications_count > 0
    THEN [db EXCEPT ![job_id].applications_count = @ - 1]
    ELSE db

(* create_application that does not count the application on the job *)
create_application_uncounted(job_id, job_seeker_id) ==
    /\ server = "running"
    /\ IF job_id \notin DOMAIN service_jobs_db THEN
          UNCHANGED stores /\ Answered("create", "ValueError")
       ELSE IF get_application_by_job_and_user(job_id, job_seeker_id) THEN
          UNCHANGED stores /\ Answered("create", "ValueError")
       ELSE
          /\ application_id_counter <= MaxServiceApplications
          /\ service_applications_db' = service_applications_db @@
                (application_id_counter :>
                    [id |-> application_id_counter, job_id |-> job_id,
                     job_seeker_id |-> job_seeker_id, status |-> "pending"])
          /\ application_id_counter' = application_id_counter + 1
          /\ UNCHANGED <<applications_db, user_applications, job_applications, issued, service_jobs_db, job_id_counter>>
          /\ Answered("create", "200")
    /\ UNCHANGED <<min_similarity_score, max_candidates, fpOver, vectorizer, memo, JOB_DATASET, job_data_json, server, accounts>>

(* ApplicationService.create_application: ValueError for an unknown job or
   an earlier application of the user for the job; otherwise the record
   under the next id, with the status ApplicationStatus.PENDING, and the
   job's count raised *)
create_application(job_id, job_seeker_id) ==
    /\ server = "running"
    /\ IF job_id \notin DOMAIN service_jobs_db THEN
          UNCHANGED stores /\ Answered("create", "ValueError")
       ELSE IF get_application_by_job_and_user(job_id, job_seeker_id) THEN
          UNCHANGED stores /\ Answered("create", "ValueError")
       ELSE
          /\ application_id_counter <= MaxServiceApplications
          /\ service_applications_db' = service_applications_db @@
                (application_id_counter :>
                    [id |-> application_id_counter, job_id |-> job_id,
                     job_seeker_id |-> job_seeker_id, status |-> "pending"])
          /\ application_id_counter' = application_id_counter + 1
          /\ service_jobs_db' = increment_applications_count(service_jobs_db, job_id)
          /\ UNCHANGED <<applications_db, user_applications, job_applications, issued, job_id_counter>>
          /\ Answered("create", "200")
    /\ UNCHANGED <<min_similarity_score, max_candidates, fpOver, vectorizer, memo, JOB_DATASET, job_data_json, server, accounts>>

(* ApplicationService.delete_application *)
delete_application(application_id) ==
    /\ server = "running"
    /\ IF application_id \notin DOMAIN service_applications_db
       THEN UNCHANGED stores /\ Answered("delete", "ValueError")
       ELSE /\ service_applications_db' = Without(service_applications_db, application_id)
            /\ service_jobs_db' =
                  decrement_applications_count(service_jobs_db,
                      service_applications_db[application_id].job_id)
            /\ UNCHANGED <<applications_db, user_applications, job_applications, issued, application_id_counter, job_id_counter>>
            /\ Answered("delete", "200")
    /\ UNCHANGED <<min_similarity_score, max_candidates, fpOver, vectorizer, memo, JOB_DATASET, job_data_json, server, accounts>>

InitApplications ==
    /\ min_similarity_score = 0
    /\ max_candidates \in MaxCandidatesChoices
    /\ fpOver = FALSE
    /\ vectorizer = Unfitted
    /\ call = NoCall
    /\ memo = NoCall
    /\ JOB_DATASET = <<>>
    /\ job_data_json = FileAbsent
    /\ server = "running"
    /\ applications_db = <<>>
    /\ user_applications = <<>>
    /\ job_applications = <<>>
    /\ issued = 0
    /\ service_applications_db = <<>>
    /\ application_id_counter = 1
    /\ DefaultJobsCreated
    /\ AccountsEmpty

NextApplications ==
    \/ \E user_id \in Students, job_id \in JobIds, resume_id \in ResumeIds :
          apply_to_job(user_id, job_id, resume_id)
    \/ \E application_id \in ApplicationIds, new_status \in SampleStatusUpdates, employer_id \in Employers :
          update_application_status(application_id, new_status, employer_id)
    \/ \E application_id \in ApplicationIds, user_id \in Students :
          withdraw_application(application_id, user_id)

SpecApplications == InitApplications /\ [][NextApplications]_vars

(* the services: JobService and ApplicationService on their own stores *)
NextServices ==
    \/ \E employer_id \in ServiceEmployers : create_job(employer_id)
    \/ \E job_id \in ServiceJobIds : delete_job(job_id)
    \/ \E job_id \in ServiceJobIds, job_seeker_id \in ServiceUsers :
          create_application(job_id, job_seeker_id)
    \/ \E application_id \in ServiceApplicationIds : delete_application(application_id)

(* the services after their import *)
InitServices ==
    /\ min_similarity_score = 0
    /\ max_candidates \in MaxCandidatesChoices
    /\ fpOver = FALSE
    /\ vectorizer = Unfitted
    /\ call = NoCall
    /\ memo = NoCall
    /\ JOB_DATASET = <<>>
    /\ job_data_json = FileAbsent
    /\ server = "running"
    /\ applications_db = <<>>
    /\ user_applications = <<>>
    /\ job_applications = <<>>
    /\ issued = 0
    /\ service_applications_db = <<>>
    /\ application_id_counter = 1
    /\ DefaultJobsCreated
    /\ AccountsEmpty

SpecServices == InitServices /\ [][NextServices]_vars

-----------------------------------------------------------------------------
(* User accounts: routers/auth.py and AuthService *)

(* how many users are registered in a run *)
MaxUsers == 3

(* the addresses sent in registration requests *)
SampleEmails == {<<"a","@","x">>, <<"a","@","X">>, <<"A","@","x">>, <<"b","@","x">>}

(* schemas.UserRole *)
UserRole == {"student", "employer"}

(* the address as a request model holds it: pydantic's EmailStr keeps the
   local part as sent and puts the domain in lower case *)
EmailStr(raw) ==
    LET at == CHOOSE i \in 1..Len(raw) :
                  raw[i] = "@" /\ \A j \in (i + 1)..Len(raw) : raw[j] # "@"
    IN  [i \in 1..Len(raw) |->
            IF i > at /\ raw[i] \in UpperLetters THEN LowerOf[raw[i]] ELSE raw[i]]

(* schemas.User, with the fields the handlers read *)
User(id, email, role) ==
    [id |-> id, email |-> email, role |-> role, is_active |-> TRUE, is_verified |-> FALSE]

(* routers/auth.py save_users_db: every user as a dict, with the key _id
   added beside id *)
save_users_db(db) ==
    FileOf([user_id \in DOMAIN db |->
               [id |-> db[user_id].id, _id |-> db[user_id].id,
                email |-> db[user_id].email, role |-> db[user_id].role,
                is_active |-> db[user_id].is_active,
                is_verified |-> db[user_id].is_verified]])

(* routers/auth.py load_users_db: no user when the file is absent or
   unreadable, otherwise a User built from every entry *)
load_users_db(file) ==
    IF ~file.exists \/ ~file.json THEN <<>>
    ELSE [user_id \in DOMAIN file.value |->
             [id |-> file.value[user_id]._id, email |-> file.value[user_id].email,
              role |-> file.value[user_id].role,
              is_active |-> file.value[user_id].is_active,
              is_verified |-> file.value[user_id].is_verified]]

(* routers/auth.py save_users_by_email and load_users_by_email *)
save_users_by_email(by_email) == FileOf(by_email)
load_users_by_email(file) == IF ~file.exists \/ ~file.json THEN <<>> ELSE file.value

(* the users an earlier run of the server left in the two files *)
SamplePriorUsers == {<<>>, 0 :> User(0, <<"b","@","x">>, "student")}

(* the email index of a user store *)
EmailIndex(db) ==
    [email \in {db[u].email : u \in DOMAIN db} |->
        CHOOSE u \in DOMAIN db : db[u].email = email]

(* some stored user has the address *)
HasEmail(db, email) == \E u \in DOMAIN db : db[u].email = email

(* the answer of a registration, with what an observer of the call sees:
   whether a stored user had the address when the call began, and whether
   the call changed the user stores or their files *)
RegisterAnswered(op, code, had_email) ==
    call' = [op |-> op, phase |-> "done", args |-> <<>>,
             result |-> [raised |-> code \notin {"200", "201"}, status_code |-> code,
                         had_email |-> had_email,
                         accounts_changed |-> accounts' # accounts]]

(* the part the three registration handlers of routers/auth.py share: the
   test of the address against users_by_email, the new user under a fresh
   uuid4 in both stores, and the two files saved *)
RegisterWith(op, email, role) ==
    /\ server = "running"
    /\ IF email \in DOMAIN users_by_email THEN
          UNCHANGED accounts /\ RegisterAnswered(op, "400", HasEmail(users_db, email))
       ELSE
          /\ registered < MaxUsers
          /\ registered' = registered + 1
          /\ users_db' = users_db @@ ((registered + 1) :> User(registered + 1, email, role))
          /\ users_by_email' = ((email :> (registered + 1)) @@ users_by_email)
          /\ users_db_json' = save_users_db(users_db')
          /\ users_by_email_json' = save_users_by_email(users_by_email')
          /\ UNCHANGED <<users_store, email_to_user_id>>
          /\ RegisterAnswered(op, "201", HasEmail(users_db, email))
    /\ UNCHANGED <<min_similarity_score, max_candidates, fpOver, vectorizer, memo, JOB_DATASET, job_data_json, server, stores>>

(* routers/auth.py register_user *)
register_user(raw_email, role) ==
    RegisterWith("register_user", EmailStr(raw_email), role)

(* register_employer that does not look the organization email up *)
register_employer_unchecked(raw_organization_email) ==
    /\ server = "running"
    /\ registered < MaxUsers
    /\ registered' = registered + 1
    /\ users_db' = users_db @@
          ((registered + 1) :> User(registered + 1, EmailStr(raw_organization_email), "employer"))
    /\ users_by_email' =
          ((EmailStr(raw_organization_email) :> (registered + 1)) @@ users_by_email)
    /\ users_db_json' = save_users_db(users_db')
    /\ users_by_email_json' = save_users_by_email(users_by_email')
    /\ UNCHANGED <<users_store, email_to_user_id>>
    /\ RegisterAnswered("register_employer", "201",
                        HasEmail(users_db, EmailStr(raw_organization_email)))
    /\ UNCHANGED <<min_similarity_score, max_candidates, fpOver, vectorizer, memo, JOB_DATASET, job_data_json, server, stores>>

(* routers/auth.py register_employer: the account's email is the
   organization email *)
register_employer(raw_organization_email) ==
    RegisterWith("register_employer", EmailStr(raw_organization_email), "employer")

(* routers/auth.py register_student *)
register_student(raw_email) ==
    RegisterWith("register_student", EmailStr(raw_email), "student")

(* AuthService.register_user: ValueError for a registered address (raised
   again as ValueError by the except clause), otherwise the new user in
   users_store and email_to_user_id *)
AuthService_register_user(raw_email, role) ==
    /\ server = "running"
    /\ LET email == EmailStr(raw_email)
       IN  IF email \in DOMAIN email_to_user_id THEN
              UNCHANGED accounts
                 /\ RegisterAnswered("AuthService.register_user", "ValueError",
                                     HasEmail(users_store, email))
           ELSE
              /\ registered < MaxUsers
              /\ registered' = registered + 1
              /\ users_store' = users_store @@
                    ((registered + 1) :> User(registered + 1, email, role))
              /\ email_to_user_id' = ((email :> (registered + 1)) @@ email_to_user_id)
              /\ UNCHANGED <<users_db, users_by_email, users_db_json, users_by_email_json>>
              /\ RegisterAnswered("AuthService.register_user", "200",
                                  HasEmail(users_store, email))
    /\ UNCHANGED <<min_similarity_score, max_candidates, fpOver, vectorizer, memo, JOB_DATASET, job_data_json, server, stores>>

(* the server starts on the files an earlier run left: routers/auth.py
   loads both at import *)
InitAccounts ==
    /\ min_similarity_score = 0
    /\ max_candidates \in MaxCandidatesChoices
    /\ fpOver = FALSE
    /\ vectorizer = Unfitted
    /\ call = NoCall
    /\ memo = NoCall
    /\ JOB_DATASET = <<>>
    /\ job_data_json = FileAbsent
    /\ server = "running"
    /\ applications_db = <<>>
    /\ user_applications = <<>>
    /\ job_applications = <<>>
    /\ issued = 0
    /\ service_applications_db = <<>>
    /\ application_id_counter = 1
    /\ DefaultJobsCreated
    /\ \E prior \in SamplePriorUsers :
          /\ users_db_json = IF prior = <<>> THEN FileAbsent ELSE save_users_db(prior)
          /\ users_by_email_json =
                IF prior = <<>> THEN FileAbsent ELSE save_users_by_email(EmailIndex(prior))
    /\ users_db = load_users_db(users_db_json)
    /\ users_by_email = load_users_by_email(users_by_email_json)
    /\ users_store = <<>>
    /\ email_to_user_id = <<>>
    /\ registered = 0

NextAccounts ==
    \/ \E raw_email \in SampleEmails, role \in UserRole : register_user(raw_email, role)
    \/ \E raw_organization_email \in SampleEmails : register_employer(raw_organization_email)
    \/ \E raw_email \in SampleEmails : register_student(raw_email)
    \/ \E raw_email \in SampleEmails, role \in UserRole :
          AuthService_register_user(raw_email, role)

SpecAccounts == InitAccounts /\ [][NextAccounts]_vars

-----------------------------------------------------------------------------
(* Properties *)

RankDone == call.op = "rank" /\ call.phase = "done"
RecommendDone == call.op = "recommend" /\ call.phase = "done"
GapDone == call.op = "gap" /\ call.phase = "done"
CoverageDone == call.op = "coverage" /\ call.phase = "done"

(* the candidates given to the rank call, the matches it returned, and the
   matches its scoring produced before filtering *)
RankIn == call.args.candidates
RankOut == call.result.response.candidates
RankScored == call.result.scoring.matches

Ranked(i) == \E k \in 1..Len(RankOut) : RankOut[k].cand = i

(* C1, as stated: every candidate passed to rank appears in the ranked
   output. *)
C1_EveryCandidateRanked ==
    RankDone => \A i \in 1..Len(RankIn) : Ranked(i)

(* C1, amended: every returned match is for a candidate that was passed in
   and carries its identifiers; a candidate passed in is absent from the
   output only when the scoring raised (the response is then the empty
   one), when the output already holds max_candidates matches, or when
   every match scored for it is below min_similarity_score. *)
C1_DroppedOnlyByFilterLimitOrFailure ==
    RankDone =>
        /\ \A k \in 1..Len(RankOut) :
              /\ RankOut[k].cand \in 1..Len(RankIn)
              /\ RankOut[k].user_id = Get(RankIn[RankOut[k].cand], "user_id", <<>>)
              /\ RankOut[k].resume_id = Get(RankIn[RankOut[k].cand], "resume_id", <<>>)
        /\ \A i \in 1..Len(RankIn) :
              ~Ranked(i) =>
                 \/ call.result.scoring.raised
                 \/ Len(RankOut) = max_candidates
                 \/ /\ \E j \in 1..Len(RankScored) : RankScored[j].cand = i
                    /\ \A j \in 1..Len(RankScored) :
                          RankScored[j].cand = i =>
                             RankScored[j].match_score < min_similarity_score

(* a rank call that did not fail returned one candidate and left out
   another, whose score is below the minimum *)
C1_Witness ==
    /\ RankDone
    /\ ~call.result.scoring.failed
    /\ Len(RankOut) < max_candidates
    /\ \E i, j \in 1..Len(RankIn) : Ranked(i) /\ ~Ranked(j)

(* C2: the list returned by rank, and the list returned by the
   recommendation call, is ordered by score, highest first. *)
C2_OrderedByScoreDescending ==
    /\ RankDone =>
          \A i, j \in 1..Len(RankOut) :
             i < j => RankOut[i].match_score >= RankOut[j].match_score
    /\ RecommendDone =>
          \A i, j \in 1..Len(call.result.recommendations) :
             i < j => call.result.recommendations[i].match_score
                         >= call.result.recommendations[j].match_score

(* rank returned a candidate ahead of one that came before it in the input
   and scored lower *)
C2_Witness ==
    /\ RankDone
    /\ \E i, j \in 1..Len(RankOut) :
          /\ i < j
          /\ RankOut[i].cand > RankOut[j].cand
          /\ RankOut[i].match_score > RankOut[j].match_score

(* C3, as stated: two candidates of equal score appear in the ranked output
   in the order in which they appeared in the input. *)
C3_TiesKeepInputOrder ==
    RankDone =>
        \A i, j \in 1..Len(RankOut) :
           (i < j /\ RankOut[i].match_score = RankOut[j].match_score)
              => RankOut[i].cand <= RankOut[j].cand

(* the text similarity of candidate i of a rank request: the TF-IDF cosine
   similarity of the job text and the candidate's text, vectorised in one
   batch; 0 when the batch has no vocabulary *)
TextSimilarity(args, i, over) ==
    LET job_text == _prepare_job_text(args.job_description, args.job_requirements)
        candidate_texts ==
            [k \in 1..Len(args.candidates) |->
                _prepare_candidate_text(
                    Get(args.candidates[k], "resume_text", <<>>),
                    Get(args.candidates[k], "skills", <<>>),
                    Get(args.candidates[k], "experience", <<>>))]
    IN  The({IF fit.raised THEN 0
             ELSE cosine_similarity(Transform(fit.vectorizer, job_text),
                      Transform(fit.vectorizer, candidate_texts[i]), over) :
             fit \in {Fit(Unfitted, <<job_text>> \o candidate_texts)}})

(* the sub-scores the specification names and the service does not compute:
   the share of the required skills the candidate has (0.5 when nothing is
   required), the default 0.7 of an unknown experience requirement, and
   full credit for any education present *)
skillMatch(candidate, job_requirements) ==
    IF job_requirements = <<>> THEN Scale \div 2
    ELSE (Len(_analyze_skill_match(Get(candidate, "skills", <<>>),
                                   job_requirements).matching_skills) * Scale)
            \div Len(job_requirements)

experienceMatch(candidate) == (7 * Scale) \div 10

educationMatch(candidate) ==
    IF Get(candidate, "education", <<>>) # <<>> THEN Scale ELSE 0

(* C4, as stated: for every ranked candidate, overallScore equals
   0.4*skillMatch + 0.25*experienceMatch + 0.2*textSimilarity +
   0.15*educationMatch. *)
C4_WeightedComposite ==
    RankDone =>
        \A k \in 1..Len(RankOut) :
           100 * RankOut[k].match_score =
                40 * skillMatch(RankIn[RankOut[k].cand], call.args.job_requirements)
              + 25 * experienceMatch(RankIn[RankOut[k].cand])
              + 20 * TextSimilarity(call.args, RankOut[k].cand, fpOver)
              + 15 * educationMatch(RankIn[RankOut[k].cand])

(* C4, amended: for every ranked candidate, the overall score (match_score)
   equals the candidate's text similarity alone, or is 0.0 when the scoring
   of the batch failed and the zero-score matches of the except block were
   returned; skills, experience and education do not enter it. *)
C4_ScoreIsTextSimilarity ==
    RankDone =>
        \A k \in 1..Len(RankOut) :
           \/ RankOut[k].match_score =
                 TextSimilarity(call.args, RankOut[k].cand, fpOver)
           \/ call.result.scoring.failed /\ RankOut[k].match_score = 0

(* rank returned, without failing, a candidate who has every required skill
   and a similarity strictly between 0 and 1 *)
C4_Witness ==
    /\ RankDone
    /\ ~call.result.scoring.failed
    /\ \E k \in 1..Len(RankOut) :
          /\ RankOut[k].match_score > 0
          /\ RankOut[k].match_score < Scale
          /\ RankOut[k].matching_skills # <<>>
          /\ RankOut[k].missing_skills = <<>>

(* C5: every score in a match returned by rank lies in [0,1]. *)
C5_ScoreInUnitInterval ==
    RankDone =>
        \A k \in 1..Len(RankOut) :
           RankOut[k].match_score >= 0 /\ RankOut[k].match_score <= Scale

(* a similarity came out above 1.0, CandidateMatch rejected it, and rank
   returned the matches of the except block *)
C5_Witness ==
    /\ RankDone
    /\ fpOver
    /\ call.result.scoring.failed
    /\ RankOut # <<>>
    /\ \E i \in 1..Len(RankIn) : TextSimilarity(call.args, i, fpOver) > Scale

(* C6: two rank calls, or two recommendation calls, with identical inputs
   return identical output, whatever was called in between. *)
C6_SameInputsSameOutput ==
    (call.phase = "done" /\ memo.op = call.op /\ memo.args = call.args)
        => call.result = memo.result

(* a rank request was answered a second time, with two or more matches,
   by a vectorizer that the first answer had left fitted *)
C6_Witness ==
    /\ RankDone
    /\ memo.op = "rank"
    /\ memo.args = call.args
    /\ Len(RankOut) >= 2
    /\ vectorizer # Unfitted

(* C7: rank called with an empty candidate list returns an empty list and
   raises no error. *)
C7_EmptyListEmptyResult ==
    (RankDone /\ RankIn = <<>>) =>
        /\ ~call.result.raised
        /\ RankOut = <<>>
        /\ call.result.response.total_candidates = 0

(* rank answered an empty candidate list after the vectorizer had been
   fitted by an earlier call *)
C7_Witness ==
    /\ RankDone
    /\ RankIn = <<>>
    /\ vectorizer # Unfitted

(* the optional fields of a candidate record *)
OptionalFields ==
    {"user_name", "user_email", "skills", "experience", "experience_level", "job_id"}

(* C8, as stated: when optional fields of a candidate record are missing,
   the scoring does not raise, and it still returns a score for that
   candidate. *)
C8_MissingFieldsStillScored ==
    RankDone =>
        /\ ~call.result.raised
        /\ ~call.result.scoring.raised
        /\ \A i \in 1..Len(RankIn) :
              (OptionalFields \ DOMAIN RankIn[i] # {})
                 => \E j \in 1..Len(RankScored) : RankScored[j].cand = i

(* the text has no word, or only stop words *)
EmptyOrStopWords(text) ==
    \A k \in 1..Len(WordRuns(Lower(text), <<>>)) :
       WordRuns(Lower(text), <<>>)[k] \in StopWords

(* C9: when the job text or a candidate's text is empty or made of stop
   words only, the text similarity scored for that candidate is 0.0, and
   rank raises no error. *)
C9_DegenerateTextScoresZero ==
    RankDone =>
        /\ ~call.result.raised
        /\ \A j \in 1..Len(RankScored) :
              (\/ EmptyOrStopWords(_prepare_job_text(call.args.job_description,
                                                     call.args.job_requirements))
               \/ EmptyOrStopWords(_prepare_candidate_text(
                      Get(RankIn[RankScored[j].cand], "resume_text", <<>>),
                      Get(RankIn[RankScored[j].cand], "skills", <<>>),
                      Get(RankIn[RankScored[j].cand], "experience", <<>>))))
                 => RankScored[j].match_score = 0

(* rank scored, without failing, a candidate whose text is made of stop
   words against a job text that is not, next to a candidate with a
   positive score *)
C9_Witness ==
    /\ RankDone
    /\ ~call.result.scoring.failed
    /\ ~EmptyOrStopWords(_prepare_job_text(call.args.job_description,
                                           call.args.job_requirements))
    /\ \E j \in 1..Len(RankScored) :
          /\ RankScored[j].match_score = 0
          /\ Get(RankIn[RankScored[j].cand], "resume_text", <<>>) # <<>>
          /\ EmptyOrStopWords(Get(RankIn[RankScored[j].cand], "resume_text", <<>>))
    /\ \E j \in 1..Len(RankScored) : RankScored[j].match_score > 0

(* C10, as stated: when the job's required skills are empty, the skill
   match score is the neutral 0.5 (50 percent) for every candidate, and no
   exception is raised. *)
C10_EmptyRequirementsNeutral ==
    /\ (GapDone /\ call.args.job_requirements = <<>>) =>
          /\ ~call.result.raised
          /\ call.result.gap.skill_coverage = 50 * Scale
    /\ (CoverageDone /\ call.args.job_requirements = <<>>) =>
          /\ ~call.result.raised
          /\ call.result.coverage = 50 * Scale

(* C10, amended: when the job's required skills are empty, the skill
   coverage is 100 percent and the gap score 0 for every candidate, and no
   exception is raised. *)
C10_EmptyRequirementsFullCoverage ==
    /\ (GapDone /\ call.args.job_requirements = <<>>) =>
          /\ ~call.result.raised
          /\ call.result.gap.skill_coverage = 100 * Scale
          /\ call.result.gap.gap_score = 0
    /\ (CoverageDone /\ call.args.job_requirements = <<>>) =>
          /\ ~call.result.raised
          /\ call.result.coverage = 100 * Scale

(* the skill gap of a candidate with skills was computed against an empty
   list of requirements *)
C10_Witness ==
    /\ GapDone
    /\ call.args.job_requirements = <<>>
    /\ call.args.candidate_skills # <<>>

InsightsDone == call.op = "insights" /\ call.phase = "done"
OverallScoreDone == call.op = "overall_score" /\ call.phase = "done"
MarketScoreDone == call.op = "market_score" /\ call.phase = "done"
IndustryDone == call.op = "industry" /\ call.phase = "done"

(* C11, as stated: when the number of required skills of the target is 0,
   the readiness percentage is 100 and no division error is raised. *)
C11_ZeroRequirementsReadiness100 ==
    (InsightsDone /\ call.args.required_skills = <<>>) =>
        /\ ~call.result.raised
        /\ call.result.skill_breakdown.skill_match_percentage = 100 * Scale

(* a fixed-point percentage between 0 and 100 *)
IsPercentage(p) == 0 <= p /\ p <= 100 * Scale

(* C12: every readiness score produced lies in [0,100]: the counseling
   overall score, the market-adjusted score, the skill coverage percentage
   and the readiness percentage of every industry. *)
C12_ReadinessScoresInRange ==
    /\ OverallScoreDone => IsPercentage(call.result.score)
    /\ MarketScoreDone => IsPercentage(call.result.score)
    /\ GapDone => IsPercentage(call.result.gap.skill_coverage)
    /\ CoverageDone => IsPercentage(call.result.coverage)
    /\ (IndustryDone /\ ~call.result.raised) =>
          \A i \in 1..Len(call.result.industry_readiness) :
              IsPercentage(call.result.industry_readiness[i].readiness_score)

(* an overall score whose points sum below zero has been answered as 0 *)
C12_Witness ==
    /\ OverallScoreDone
    /\ OverallPoints(call.args.user_skills, call.args.user_experience,
                     call.args.missing_skills) < 0
    /\ call.result.score = 0

(* the skill coverage calculate_skill_gap_score gives the candidate skills *)
CoverageOf(candidate_skills, job_requirements) ==
    calculate_skill_gap_score(candidate_skills, job_requirements).skill_coverage

(* C13: adding to a candidate's skills a skill that is among the job's
   required skills never decreases the share of the requirements the
   candidate matches, whether the skill is listed last or first. *)
C13_AddingRequiredSkillNeverDecreases ==
    GapDone =>
        \A i \in 1..Len(call.args.job_requirements) :
            LET added == call.args.job_requirements[i]
            IN  /\ CoverageOf(Append(call.args.candidate_skills, added),
                              call.args.job_requirements)
                      >= call.result.gap.skill_coverage
                /\ CoverageOf(<<added>> \o call.args.candidate_skills,
                              call.args.job_requirements)
                      >= call.result.gap.skill_coverage

(* a candidate with a skill misses a requirement, and listing it raises
   the coverage *)
C13_Witness ==
    /\ GapDone
    /\ call.args.candidate_skills # <<>>
    /\ \E i \in 1..Len(call.args.job_requirements) :
          CoverageOf(Append(call.args.candidate_skills, call.args.job_requirements[i]),
                     call.args.job_requirements)
              > call.result.gap.skill_coverage

(* b lists the items of a in some order *)
IsPermutation(a, b) ==
    /\ Len(a) = Len(b)
    /\ \A i \in 1..Len(a) :
          Cardinality({k \in 1..Len(a) : a[k] = a[i]})
              = Cardinality({k \in 1..Len(b) : b[k] = a[i]})

(* the scores _calculate_similarity_scores attaches to candidate IDs *)
ScoresById(matches) ==
    {<<matches[i].user_id, matches[i].match_score>> : i \in 1..Len(matches)}

(* C14, as stated: when two scoring calls for the same job get the same
   candidates in a different order, the same scores are attached to the
   same candidate IDs. *)
C14_ReorderingKeepsScores ==
    (/\ RankDone /\ memo.op = "rank"
     /\ memo.args.job_description = call.args.job_description
     /\ memo.args.job_requirements = call.args.job_requirements
     /\ IsPermutation(memo.args.candidates, call.args.candidates))
        => ScoresById(call.result.scoring.matches)
               = ScoresById(memo.result.scoring.matches)

(* C15, as stated: a rank or recommendation call writes no state of the
   service that outlives the call: the fitted vectorizer and the two
   settings are after the call what they were before it. *)
C15_ScoringWritesNoSharedState ==
    [][(HandleRank \/ HandleRecommend) =>
          /\ vectorizer' = vectorizer
          /\ min_similarity_score' = min_similarity_score
          /\ max_candidates' = max_candidates]_vars

(* C16: a rank call leaves every candidate record passed in equal to its
   value before the call: once the call has answered, the caller's records
   equal the copy taken of them as they were passed in. *)
C16_RankLeavesCandidatesUnchanged ==
    RankDone => call.args.candidates = call.result.passed

(* a rank call has scored a record that lacks the optional skills and
   experience fields, for which the defaults were read *)
C16_Witness ==
    /\ RankDone
    /\ ~call.result.scoring.failed
    /\ Len(RankOut) >= 1
    /\ \E i \in 1..Len(RankIn) : "skills" \notin DOMAIN RankIn[i]

(* the characters of a skill token *)
TokenChars ==
    {"a","b","c","d","e","f","g","h","i","j","k","l","m","n","o","p","q","r","s","t",
     "u","v","w","x","y","z","0","1","2","3","4","5","6","7","8","9"}

(* a occurs in b as whole tokens: no token character stands next to the
   occurrence *)
WholeWordIn(a, b) ==
    /\ a # <<>>
    /\ \E i \in 1..(Len(b) - Len(a) + 1) :
          /\ SubSeq(b, i, i + Len(a) - 1) = a
          /\ (i = 1 \/ b[i - 1] \notin TokenChars)
          /\ (i + Len(a) - 1 = Len(b) \/ b[i + Len(a)] \notin TokenChars)

(* C17, as stated: a requirement is reported as matched only when it and
   some skill of the candidate agree on whole tokens; a skill that is a
   part of a longer, different token ("java" and "javascript") is no
   match in either direction. *)
C17_NoSubstringFalseMatch ==
    GapDone =>
        \A i \in 1..Len(Get(call.result.gap, "matching_skills", <<>>)) :
            \E k \in 1..Len(call.args.candidate_skills) :
                LET requirement_lower == Strip(Lower(call.result.gap.matching_skills[i]))
                    candidate_skill == Strip(Lower(call.args.candidate_skills[k]))
                IN  \/ WholeWordIn(requirement_lower, candidate_skill)
                    \/ WholeWordIn(candidate_skill, requirement_lower)

CleanDone == call.op = "clean" /\ call.phase = "done"

(* C18: _clean_text answers every text without raising, with a text made
   only of lowercase letters, digits and spaces in which no two spaces
   follow each other; the empty text gives the empty text. *)
C18_CleanTextTotalAndNormal ==
    CleanDone =>
        LET out == call.result.text
        IN  /\ ~call.result.raised
            /\ \A i \in 1..Len(out) : out[i] \in LowerLetters \cup Digits \cup {" "}
            /\ \A i \in 1..(Len(out) - 1) : ~(out[i] = " " /\ out[i + 1] = " ")
            /\ call.args.text = <<>> => out = <<>>

(* a text with an upper-case letter, a special character and two whitespace
   characters in a row has been cleaned to a text that is not empty *)
C18_Witness ==
    /\ CleanDone
    /\ \E i \in 1..Len(call.args.text) : call.args.text[i] = "Z"
    /\ \E i \in 1..Len(call.args.text) : call.args.text[i] = "-"
    /\ \E i \in 1..(Len(call.args.text) - 1) :
          call.args.text[i] \in Whitespace /\ call.args.text[i + 1] \in Whitespace
    /\ Len(call.result.text) >= 1

AnalysisDone == call.op = "market_analysis" /\ call.phase = "done"

(* a row of the job data as the services read it: a list of skill keywords
   and certifications that are strings *)
WellFormedRow(row) ==
    /\ Get(row, "skillKeywords", <<>>) # None
    /\ \A k \in 1..Len(Get(row, "requiredCertifications", <<>>)) :
          row.requiredCertifications[k].type = "str"

(* job_data.json is there and is not the table the services read *)
Malformed(file) ==
    /\ file.exists
    /\ \/ ~file.json
       \/ \E j \in 1..Len(file.value) : ~WellFormedRow(file.value[j])

(* C19, as stated: with a malformed job_data.json the process fails at
   startup, that is, the import does not leave a running server, and no
   request raises because of the table. *)
C19_MalformedTableFailsAtStartup ==
    /\ (Malformed(job_data_json) /\ server # "starting") => server = "crashed"
    /\ AnalysisDone => ~call.result.raised

(* the (user, job) pairs of the stored applications are all different *)
OnePerUserAndJob(db, user_field) ==
    \A a, b \in DOMAIN db :
        (db[a][user_field] = db[b][user_field] /\ db[a].job_id = db[b].job_id) => a = b

(* C20: after any apply, withdraw and status update the application store
   holds at most one application for a user and a job; an apply by a user
   who already has a stored application for the job is rejected and creates
   nothing. *)
C20_OneApplicationPerUserAndJob ==
    /\ OnePerUserAndJob(applications_db, "user_id")
    /\ (call.op = "apply" /\ call.result.had_applied) =>
           (call.result.raised /\ ~call.result.stores_changed)

(* after a withdrawal and a new application, a user with two stored
   applications, one of them hired or rejected, has applied again to a
   job of theirs *)
C20_Witness ==
    /\ call.op = "apply" /\ call.result.had_applied
    /\ issued = MaxApplications
    /\ Cardinality(DOMAIN applications_db) = 2
    /\ \E a, b \in DOMAIN applications_db :
          /\ a # b
          /\ applications_db[a].user_id = applications_db[b].user_id
          /\ \E x \in DOMAIN applications_db : applications_db[x].status # "applied"

(* a call of the application handlers has answered *)
ApplicationCallDone ==
    call.phase = "done" /\ call.op \in {"apply", "update", "withdraw", "create", "delete"}

(* C21: the status of a stored application is changed only by a status
   update of the employer who owns the application's job; a status update
   of another employer on a stored application is answered with 403 and
   leaves the stores unchanged. *)
C21_OnlyOwningEmployerChangesStatus ==
    /\ (ApplicationCallDone /\ call.result.status_changed) =>
           (call.op = "update" /\ call.result.owner)
    /\ (call.op = "update" /\ call.result.found /\ ~call.result.owner) =>
           (call.result.status_code = "403" /\ ~call.result.stores_changed)

(* an employer who does not own the job is refused on an application
   whose status the owner had set before *)
C21_Witness ==
    /\ call.op = "update" /\ call.result.found /\ ~call.result.owner
    /\ \E id \in DOMAIN applications_db : applications_db[id].status # "applied"

(* no two users of the store have the same email *)
UniqueEmails(db) == \A u, v \in DOMAIN db : db[u].email = db[v].email => u = v

(* a registration has answered *)
RegisterDone ==
    call.phase = "done" /\ call.op \in {"register_user", "register_employer",
                                        "register_student", "AuthService.register_user"}

(* C22: after any sequence of registrations through the general, the
   employer and the student endpoint no two stored users have the same
   email, in the router's store and in the service's; a registration with
   an email that a stored user has is rejected and stores nothing. *)
C22_NoTwoUsersShareAnEmail ==
    /\ UniqueEmails(users_db)
    /\ UniqueEmails(users_store)
    /\ (RegisterDone /\ call.result.had_email) =>
           (call.result.raised /\ ~call.result.accounts_changed)

(* an employer registers with the address of a stored user after two users
   were stored, one of them a student *)
C22_Witness ==
    /\ call.op = "register_employer" /\ call.phase = "done"
    /\ call.result.had_email
    /\ Cardinality(DOMAIN users_db) >= 2
    /\ \E u \in DOMAIN users_db : users_db[u].role = "student"

(* how often the id is in the list *)
TimesListed(ids, id) == Cardinality({k \in 1..Len(ids) : ids[k] = id})

(* C23: after any sequence of apply and withdraw operations the three
   application stores agree: every stored application is listed exactly
   once under its user and exactly once under its job, and every id that a
   user's or a job's list holds is a stored application of that user or
   job. *)
C23_ApplicationStoresAgree ==
    /\ \A id \in DOMAIN applications_db :
          /\ TimesListed(Get(user_applications, applications_db[id].user_id, <<>>), id) = 1
          /\ TimesListed(Get(job_applications, applications_db[id].job_id, <<>>), id) = 1
    /\ \A u \in DOMAIN user_applications : \A k \in 1..Len(user_applications[u]) :
          /\ user_applications[u][k] \in DOMAIN applications_db
          /\ applications_db[user_applications[u][k]].user_id = u
    /\ \A j \in DOMAIN job_applications : \A k \in 1..Len(job_applications[j]) :
          /\ job_applications[j][k] \in DOMAIN applications_db
          /\ applications_db[job_applications[j][k]].job_id = j

(* an application was withdrawn while others stay stored: one user is left
   with an empty list and another has two applications *)
C23_Witness ==
    /\ call.op = "withdraw" /\ call.phase = "done" /\ ~call.result.raised
    /\ \E u \in DOMAIN user_applications : user_applications[u] = <<>>
    /\ \E u \in DOMAIN user_applications : Len(user_applications[u]) = 2

(* the stored applications for the job *)
ApplicationsFor(job_id) ==
    {id \in DOMAIN service_applications_db : service_applications_db[id].job_id = job_id}

(* C24: after any sequence of job creations, application creations and
   application deletions each stored job's applications_count equals the
   number of stored applications for the job, and is not negative. *)
C24_ApplicationsCountIsNumberStored ==
    \A job_id \in DOMAIN service_jobs_db :
        /\ service_jobs_db[job_id].applications_count = Cardinality(ApplicationsFor(job_id))
        /\ service_jobs_db[job_id].applications_count >= 0

(* an application was deleted while a job created in the run keeps one *)
C24_Witness ==
    /\ call.op = "delete" /\ call.phase = "done" /\ ~call.result.raised
    /\ \E job_id \in DOMAIN service_jobs_db :
          /\ job_id >= 4
          /\ service_jobs_db[job_id].applications_count = 1

(* C25: after any sequence of job and application creations and deletions
   every stored application refers to a job that is in the job store. *)
C25_ApplicationsReferToStoredJobs ==
    \A id \in DOMAIN service_applications_db :
        service_applications_db[id].job_id \in DOMAIN service_jobs_db

(* C26: a withdrawal of an application whose status is hired or rejected is
   refused, with 400 when the caller is the application's user, and the
   application stays stored and listed once under its user and once under
   its job. *)
C26_FinalApplicationIsNotWithdrawn ==
    (call.op = "withdraw" /\ call.result.was_final) =>
        /\ call.result.raised
        /\ call.result.owner => call.result.status_code = "400"
        /\ ~call.result.stores_changed
        /\ call.result.application_id \in DOMAIN applications_db
        /\ LET application == applications_db[call.result.application_id]
           IN  /\ TimesListed(Get(user_applications, application.user_id, <<>>),
                              call.result.application_id) = 1
               /\ TimesListed(Get(job_applications, application.job_id, <<>>),
                              call.result.application_id) = 1

(* the user of a hired application asks to withdraw it *)
C26_Witness ==
    /\ call.op = "withdraw" /\ call.result.was_final /\ call.result.owner
    /\ applications_db[call.result.application_id].status = "hired"

(* C27: once the status of an application is hired or rejected, no later
   operation changes it to another status. *)
C27_FinalStatusStays ==
    ApplicationCallDone => ~call.result.final_status_changed

(* C28: an apply request that is rejected (job not found, job not open,
   resume not found, resume of another user, already applied) leaves
   applications_db, user_applications and job_applications as they were. *)
C28_RejectedApplyChangesNothing ==
    (call.op = "apply" /\ call.result.raised) =>
        /\ call.result.status_code \in {"400", "403", "404"}
        /\ ~call.result.stores_changed

(* a user who has applications is refused with the resume of another user *)
C28_Witness ==
    /\ call.op = "apply" /\ call.result.raised
    /\ call.result.status_code = "403"
    /\ ~call.result.had_applied
    /\ Cardinality(DOMAIN applications_db) >= 2

=============================================================================
